---- MODULE Spec2Model ----
(***************************************************************************)
(* Model of claude-context-extender: the conversation store                *)
(* (ConversationManager), the retriever (IndexManager.findRelevantChunks   *)
(* and its three strategies), the iterative synthesizer                    *)
(* (IterativeAnswerer.generateAnswer) and the orchestration of one question *)
(* (AppController.answerQuestion).                                         *)
(*                                                                         *)
(* Strings of the program are modelled as follows.  A question is the      *)
(* sequence of its whitespace-separated words.  A language-model response  *)
(* to a selection prompt is a sequence of lexical tokens.  A response to   *)
(* an answering prompt is an opaque text, kept as a record naming the call *)
(* that produced it.  A history summary is the set of exchanges whose text *)
(* was put in the merge prompts that produced it.                          *)
(***************************************************************************)
EXTENDS Integers, Sequences, FiniteSets, TLC

VARIABLES
    cfgMaxRecent,     \* config conversation.maxRecentExchanges
    cfgMergeFreq,     \* config conversation.mergeFrequency
    cfgMaxChunks,     \* config query.maxChunksPerQuery
    cfgUseSplit,      \* config query.useSplitStrategyForLargeIndices
    cfgLlmChunkSize,  \* config query.llmChunkSize
    cfgClaudeMaxTokens,       \* config claude.maxTokens
    cfgChunkSizePercentage,   \* config chunking.chunkSizePercentage
    cfgOverlapPercentage,     \* config chunking.overlapPercentage
    cfgMaxOverallSummaryLength,  \* config indexing.maxOverallSummaryLength
    cfgNoIndexThreshold,      \* config indexing.noIndexThresholdPercentage
    cfgTokenRate,             \* config claude.tokenRatePerMinute
    indexes,          \* data/indexes: index id -> index file
    conversations,    \* data/conversations: conversation id -> conversation file
    fr,               \* the findRelevantChunks call in progress or completed
    ga,               \* the generateAnswer call in progress or completed
    aq,               \* the answerQuestion call in progress or completed
    last,             \* the last completed ConversationManager call
    sp,               \* the splitIntoChunks call in progress or completed
    ix,               \* the IndexManager calls completed, oldest first
    ci                \* the AppController.createIndex call in progress or completed

config ==
    <<cfgMaxRecent, cfgMergeFreq, cfgMaxChunks, cfgUseSplit, cfgLlmChunkSize,
      cfgClaudeMaxTokens, cfgChunkSizePercentage, cfgOverlapPercentage,
      cfgMaxOverallSummaryLength, cfgNoIndexThreshold, cfgTokenRate>>
vars == <<config, indexes, conversations, fr, ga, aq, last, sp, ix, ci>>

----------------------------------------------------------------------------
(* Bounds *)

MaxConfig == 2          \* config values range over 1..MaxConfig
MaxExchanges == 3       \* exchanges addExchange adds to the store, over all conversations
MaxTextLen == 6         \* characters of a file's text
MaxIndexCalls == 3      \* IndexManager calls of a behaviour
MaxFiles == 2           \* supported files of a directory
MaxAnswered == 2        \* exchanges answerQuestion adds to the store, over all conversations

MaxChunks == 3          \* chunks of an index, chunks handed to generateAnswer
MaxQuestionWords == 2   \* words of a question

ConvIds == {"v1", "v2"}
IndexIds == {"idx1", "idx2"}
ChunkNames == <<"c1", "c2", "c3", "c4", "c5">>
AnswerTexts == {"a1", "a2"}

Pricing == <<"p", "r", "i", "c", "i", "n", "g">>
Refund == <<"r", "e", "f", "u", "n", "d">>
Constructor == <<"c", "o", "n", "s", "t", "r", "u", "c", "t", "o", "r">>

\* defaults the code applies when a config value is missing
DefaultMaxRecentExchanges == 5
DefaultMergeFrequency == 3
DefaultMaxChunksPerQuery == 5
DefaultLlmChunkSize == 50
DefaultMaxOverallSummaryLength == 2000
DefaultNoIndexThreshold == 30
DefaultTokenRatePerMinute == 50000
MinWaitTimeMs == 500

----------------------------------------------------------------------------
(* JavaScript helpers *)

\* `value || dflt` for a number: 0 (like undefined) is falsy
OrDefault(value, dflt) == IF value = 0 THEN dflt ELSE value

Min(a, b) == IF a < b THEN a ELSE b

\* Math.ceil(num / den) for num >= 0, den > 0
MathCeil(num, den) == (num + den - 1) \div den

Max(a, b) == IF a > b THEN a ELSE b

\* a relative index of Array.prototype.slice / String.prototype.slice,
\* as a 0-based offset in 0..len
SliceIndex(len, k) == IF k < 0 THEN Max(len + k, 0) ELSE Min(k, len)

\* Array.prototype.slice(from, to)
Slice(s, from, to) ==
    LET a == SliceIndex(Len(s), from)
        b == SliceIndex(Len(s), to)
    IN  IF a < b THEN SubSeq(s, a + 1, b) ELSE <<>>

\* Array.prototype.slice(from)
SliceFrom(s, from) == Slice(s, from, Len(s))

Range(s) == {s[i] : i \in DOMAIN s}

----------------------------------------------------------------------------
(* ConversationManager *)

EmptySummary == {}

\* variant: the new conversation is not bound to the index
NewConversationUnbound(conversationId, indexId) ==
    [id              |-> conversationId,
     indexId         |-> "",
     recentExchanges |-> <<>>,
     historySummary  |-> EmptySummary,
     exchangeCount   |-> 0,
     lastMergeCount  |-> 0]

\* the conversation object built by createConversation
NewConversation(conversationId, indexId) ==
    [id              |-> conversationId,
     indexId         |-> indexId,
     recentExchanges |-> <<>>,
     historySummary  |-> EmptySummary,
     exchangeCount   |-> 0,
     lastMergeCount  |-> 0]

\* getConversation: pathExists of the conversation file
ConversationExists(conversationId) == conversationId \in DOMAIN conversations

\* _saveConversation: whole-file overwrite
SaveConversation(store, conversationId, conversation) ==
    [c \in (DOMAIN store) \cup {conversationId} |->
        IF c = conversationId THEN conversation ELSE store[c]]

\* claudeClient.createConversationSummary(summaryPrompt): the updated summary
\* covers the existing summary and the exchanges of the prompt
SummaryResponse(historySummary, exchangesToMerge) ==
    historySummary \cup {e.timestamp : e \in Range(exchangesToMerge)}

\* _mergeExchangesToSummary(conversation, maxRecentExchanges); llmOk tells
\* whether the collaborator call returns or throws
\* variant: a failed compaction leaves the recent list untrimmed
MergeKeepsOnFailure(conversation, maxRecentExchanges, llmOk) ==
    LET n == Len(conversation.recentExchanges)
        exchangesToMerge == Slice(conversation.recentExchanges, 0, n - maxRecentExchanges)
    IN  IF llmOk
        THEN [conversation EXCEPT
                !.recentExchanges = SliceFrom(conversation.recentExchanges,
                                              n - maxRecentExchanges),
                !.historySummary = SummaryResponse(conversation.historySummary,
                                                   exchangesToMerge),
                !.lastMergeCount = conversation.exchangeCount]
        ELSE conversation

MergeExchangesToSummary(conversation, maxRecentExchanges, llmOk) ==
    LET n == Len(conversation.recentExchanges)
        exchangesToMerge == Slice(conversation.recentExchanges, 0, n - maxRecentExchanges)
        trimmed == [conversation EXCEPT
                      !.recentExchanges = SliceFrom(conversation.recentExchanges,
                                                    n - maxRecentExchanges)]
    IN  IF Len(exchangesToMerge) = 0 THEN trimmed
        ELSE IF llmOk
             THEN [trimmed EXCEPT
                     !.historySummary = SummaryResponse(conversation.historySummary,
                                                        exchangesToMerge),
                     !.lastMergeCount = conversation.exchangeCount]
             ELSE trimmed

\* variant: the compaction test looks at the length of the recent list only
NeedsMergeOnLength(conversation) ==
    Len(conversation.recentExchanges)
        > OrDefault(cfgMaxRecent, DefaultMaxRecentExchanges)

\* variant: the compaction waits for more than mergeFrequency exchanges
NeedsMergeLate(conversation) ==
    /\ Len(conversation.recentExchanges)
          > OrDefault(cfgMaxRecent, DefaultMaxRecentExchanges)
    /\ conversation.exchangeCount - conversation.lastMergeCount
          > OrDefault(cfgMergeFreq, DefaultMergeFrequency)

\* the compaction test of addExchange, on the conversation after the push
NeedsMerge(conversation) ==
    /\ Len(conversation.recentExchanges)
          > OrDefault(cfgMaxRecent, DefaultMaxRecentExchanges)
    /\ conversation.exchangeCount - conversation.lastMergeCount
          >= OrDefault(cfgMergeFreq, DefaultMergeFrequency)

\* variant: the push counts the exchange twice
PushedCountsTwice(conversation, question, answer) ==
    [conversation EXCEPT
        !.recentExchanges = Append(@, [timestamp |-> conversation.exchangeCount + 1,
                                       question |-> question, answer |-> answer]),
        !.exchangeCount = @ + 2]

\* addExchange: the conversation after the push and the counter update
Pushed(conversation, question, answer) ==
    [conversation EXCEPT
        !.recentExchanges = Append(@, [timestamp |-> conversation.exchangeCount + 1,
                                       question |-> question, answer |-> answer]),
        !.exchangeCount = @ + 1]

\* addExchange: the conversation it saves and returns
AddExchangeResult(conversation, question, answer, llmOk) ==
    LET pushed == Pushed(conversation, question, answer)
    IN  IF NeedsMerge(pushed)
        THEN MergeExchangesToSummary(pushed,
                 OrDefault(cfgMaxRecent, DefaultMaxRecentExchanges), llmOk)
        ELSE pushed

Timestamps(exchanges) == {e.timestamp : e \in Range(exchanges)}

\* what a completed addExchange call did
AddExchangeOutcome(conversationId, conversation, question, answer, llmOk) ==
    LET pushed == Pushed(conversation, question, answer)
        saved == AddExchangeResult(conversation, question, answer, llmOk)
    IN  [op |-> "addExchange", conversationId |-> conversationId, raised |-> FALSE,
         merged |-> NeedsMerge(pushed),
         mergeFailed |-> NeedsMerge(pushed) /\ ~llmOk,
         removed |-> Timestamps(pushed.recentExchanges)
                       \ Timestamps(saved.recentExchanges)]

NoOutcome ==
    [op |-> "none", conversationId |-> "", raised |-> FALSE, merged |-> FALSE,
     mergeFailed |-> FALSE, removed |-> {}]

\* fs.remove of the conversation file
RemoveConversation(store, conversationId) ==
    [c \in (DOMAIN store) \ {conversationId} |-> store[c]]

----------------------------------------------------------------------------
(* IndexManager: the index object *)

\* property names every object inherits from Object.prototype that a
\* lower-cased, punctuation-stripped word can spell
ObjectPrototypeKeys == {Constructor}

\* the first position (1-based) of x in s, 0 when absent: indexOf + 1
IndexOf(s, x) ==
    IF \E i \in DOMAIN s : s[i] = x
    THEN CHOOSE i \in DOMAIN s : s[i] = x /\ \A j \in 1..(i - 1) : s[j] # x
    ELSE 0

Includes(s, x) == IndexOf(s, x) # 0

\* [...new Set(s)]: first occurrences, in order
RECURSIVE Unique(_)
Unique(s) ==
    IF s = <<>> THEN <<>>
    ELSE LET front == Unique(SubSeq(s, 1, Len(s) - 1))
             x == s[Len(s)]
         IN  IF Includes(front, x) THEN front ELSE Append(front, x)

\* reading keywordsIndex[keyword] (a plain object): the own value, else the
\* member inherited from Object.prototype, else undefined
KeywordsIndexGet(keywordsIndex, keyword) ==
    IF keyword \in DOMAIN keywordsIndex
    THEN [kind |-> "array", ids |-> keywordsIndex[keyword]]
    ELSE IF keyword \in ObjectPrototypeKeys
         THEN [kind |-> "function", ids |-> <<>>]
         ELSE [kind |-> "undefined", ids |-> <<>>]

\* createIndex, the inner loop over chunk.keywords: the keyword map after the
\* keywords of one chunk were entered; raised when a read yields a value
\* that is truthy but has no includes()
RECURSIVE AddKeywords(_, _, _)
AddKeywords(acc, chunkId, keywords) ==
    IF acc.raised \/ keywords = <<>> THEN acc
    ELSE LET keyword == Head(keywords)
             got == KeywordsIndexGet(acc.keywordsIndex, keyword)
             old == IF got.kind = "array" THEN got.ids ELSE <<>>
             new == IF Includes(old, chunkId) THEN old ELSE Append(old, chunkId)
         IN  IF got.kind = "function"
             THEN [acc EXCEPT !.raised = TRUE]
             ELSE AddKeywords(
                    [acc EXCEPT !.keywordsIndex =
                        [k \in (DOMAIN acc.keywordsIndex) \cup {keyword} |->
                            IF k = keyword THEN new ELSE acc.keywordsIndex[k]]],
                    chunkId, Tail(keywords))

\* createIndex, the loop over enrichedChunks: chunkIds is the key order of
\* index.chunks, keywordsIndex the inverted map
RECURSIVE BuildIndex(_, _)
BuildIndex(acc, enrichedChunks) ==
    IF acc.raised \/ enrichedChunks = <<>> THEN acc
    ELSE LET chunk == Head(enrichedChunks)
             stored == [acc EXCEPT !.chunkIds =
                          IF Includes(acc.chunkIds, chunk.id) THEN acc.chunkIds
                          ELSE Append(acc.chunkIds, chunk.id)]
         IN  BuildIndex(AddKeywords(stored, chunk.id, chunk.keywords),
                        Tail(enrichedChunks))

\* the index object createIndex saves (raised: createIndex throws)
CreateIndexObject(enrichedChunks) ==
    BuildIndex([raised |-> FALSE, chunkIds |-> <<>>,
                keywordsIndex |-> [k \in {} |-> <<>>]],
               enrichedChunks)

----------------------------------------------------------------------------
(* IndexManager: parsing the collaborator's selection response *)

\* lexical tokens of a response text
TokLB == [kind |-> "lb", id |-> ""]
TokRB == [kind |-> "rb", id |-> ""]
TokWord == [kind |-> "word", id |-> ""]
TokQuoted(id) == [kind |-> "quoted", id |-> id]

\* positions of the tokens of one kind
Positions(tokens, kind) == {i \in DOMAIN tokens : tokens[i].kind = kind}

SetMin(S) == CHOOSE x \in S : \A y \in S : x <= y
SetMax(S) == CHOOSE x \in S : \A y \in S : x >= y

\* response.match(/\[.*\]/s): greedy, from the first "[" to the last "]"
\* after it; <<>> stands for no match
JsonMatch(tokens) ==
    LET lbs == Positions(tokens, "lb")
        rbs == Positions(tokens, "rb")
    IN  IF lbs # {} /\ rbs # {} /\ SetMin(lbs) < SetMax(rbs)
        THEN SubSeq(tokens, SetMin(lbs), SetMax(rbs))
        ELSE <<>>

\* JSON.parse accepts the matched text: a bracket pair around quoted strings
ValidJsonArray(matched) ==
    /\ Len(matched) >= 2
    /\ \A i \in 2..(Len(matched) - 1) : matched[i].kind = "quoted"

\* every "..." substring of the response, in order
RECURSIVE QuotedIds(_)
QuotedIds(tokens) ==
    IF tokens = <<>> THEN <<>>
    ELSE IF Head(tokens).kind = "quoted"
         THEN <<Head(tokens).id>> \o QuotedIds(Tail(tokens))
         ELSE QuotedIds(Tail(tokens))

\* variant: a bracketed text that is not valid JSON is scanned for quoted
\* strings instead of yielding the empty list
ParseScansInvalidJson(tokens) ==
    LET jsonMatch == JsonMatch(tokens)
    IN  IF jsonMatch # <<>> /\ ValidJsonArray(jsonMatch)
        THEN QuotedIds(jsonMatch)
        ELSE QuotedIds(tokens)

\* _parseRelevantChunkIds(response)
ParseRelevantChunkIds(tokens) ==
    LET jsonMatch == JsonMatch(tokens)
    IN  IF jsonMatch # <<>>
        THEN IF ValidJsonArray(jsonMatch)
             THEN QuotedIds(jsonMatch)      \* JSON.parse(jsonString)
             ELSE <<>>                      \* JSON.parse throws: catch, return []
        ELSE QuotedIds(tokens)              \* the quoted substrings, or []

----------------------------------------------------------------------------
(* Array.prototype.sort with a numeric comparator: stable.  Elements carry  *)
(* their sort key as the fraction num / den, den > 0.                       *)

KeyLess(a, b) == a.num * b.den < b.num * a.den

\* x placed behind every element that does not sort after it
RECURSIVE InsertAscending(_, _)
InsertAscending(s, x) ==
    IF s = <<>> THEN <<x>>
    ELSE IF KeyLess(x, s[Len(s)])
         THEN Append(InsertAscending(SubSeq(s, 1, Len(s) - 1), x), s[Len(s)])
         ELSE Append(s, x)

RECURSIVE InsertDescending(_, _)
InsertDescending(s, x) ==
    IF s = <<>> THEN <<x>>
    ELSE IF KeyLess(s[Len(s)], x)
         THEN Append(InsertDescending(SubSeq(s, 1, Len(s) - 1), x), s[Len(s)])
         ELSE Append(s, x)

\* sort((a, b) => a.key - b.key)
RECURSIVE SortAscending(_)
SortAscending(s) ==
    IF s = <<>> THEN <<>>
    ELSE InsertAscending(SortAscending(SubSeq(s, 1, Len(s) - 1)), s[Len(s)])

\* sort((a, b) => b.key - a.key)
RECURSIVE SortDescending(_)
SortDescending(s) ==
    IF s = <<>> THEN <<>>
    ELSE InsertDescending(SortDescending(SubSeq(s, 1, Len(s) - 1)), s[Len(s)])

----------------------------------------------------------------------------
(* IndexManager: the keyword strategy *)

\* a word is the sequence of its characters
UpperCase == <<"A", "B", "C", "D", "E", "F", "G", "H", "I", "J", "K", "L", "M",
               "N", "O", "P", "Q", "R", "S", "T", "U", "V", "W", "X", "Y", "Z">>
LowerCase == <<"a", "b", "c", "d", "e", "f", "g", "h", "i", "j", "k", "l", "m",
               "n", "o", "p", "q", "r", "s", "t", "u", "v", "w", "x", "y", "z">>

\* String.prototype.toLowerCase, one character
ToLowerChar(c) ==
    IF Includes(UpperCase, c) THEN LowerCase[IndexOf(UpperCase, c)] ELSE c

\* the characters of /[.,\/#!$%\^&\*;:{}=\-_`~()]/g (the grave accent is
\* spelled out)
StrippedPunctuation ==
    {".", ",", "/", "#", "!", "$", "%", "^", "&", "*", ";", ":", "{", "}",
     "=", "-", "_", "grave", "~", "(", ")"}

\* word.toLowerCase().replace(punctuation, '')
RECURSIVE CleanWord(_)
CleanWord(word) ==
    IF word = <<>> THEN <<>>
    ELSE LET c == ToLowerChar(Head(word))
         IN  IF c \in StrippedPunctuation THEN CleanWord(Tail(word))
             ELSE <<c>> \o CleanWord(Tail(word))

\* config query.stopWords (config/default.json)
StopWords ==
    {<<"a">>, <<"a", "n">>, <<"t", "h", "e">>, <<"a", "n", "d">>, <<"o", "r">>,
     <<"b", "u", "t">>, <<"i", "s">>, <<"a", "r", "e">>, <<"o", "f">>,
     <<"t", "o">>, <<"i", "n">>, <<"o", "n">>, <<"b", "y">>,
     <<"w", "i", "t", "h">>, <<"a", "b", "o", "u", "t">>, <<"f", "o", "r">>,
     <<"f", "r", "o", "m">>}

RECURSIVE FilterWords(_)
FilterWords(words) ==
    IF words = <<>> THEN <<>>
    ELSE IF Len(Head(words)) > 2 /\ Head(words) \notin StopWords
         THEN <<Head(words)>> \o FilterWords(Tail(words))
         ELSE FilterWords(Tail(words))

\* _extractKeywordsFromQuestion(question); the question is given as its
\* whitespace-separated words
ExtractKeywordsFromQuestion(question) ==
    Unique(FilterWords([i \in DOMAIN question |-> CleanWord(question[i])]))

\* chunkScores[chunkId] += 1 for every id of one keyword's list; scores is
\* chunkScores as its entries in key (insertion) order
RECURSIVE AddMatches(_, _)
AddMatches(scores, ids) ==
    IF ids = <<>> THEN scores
    ELSE LET id == Head(ids)
             at == IF \E i \in DOMAIN scores : scores[i].id = id
                   THEN CHOOSE i \in DOMAIN scores : scores[i].id = id
                   ELSE 0
         IN  AddMatches(
               IF at = 0 THEN Append(scores, [id |-> id, num |-> 1, den |-> 1])
               ELSE [scores EXCEPT ![at].num = @ + 1],
               Tail(ids))

\* the scoring loop of _findRelevantChunksWithKeywords; iterating the value
\* read for a keyword throws when it is the inherited function
RECURSIVE ChunkScores(_, _, _)
ChunkScores(acc, keywordsIndex, questionKeywords) ==
    IF acc.raised \/ questionKeywords = <<>> THEN acc
    ELSE LET got == KeywordsIndexGet(keywordsIndex, Head(questionKeywords))
         IN  IF got.kind = "function"
             THEN [acc EXCEPT !.raised = TRUE]
             ELSE ChunkScores([acc EXCEPT !.scores = AddMatches(@, got.ids)],
                              keywordsIndex, Tail(questionKeywords))

\* variant: the scored chunks are returned in the order they were first matched
FindRelevantChunksUnsorted(index, question, maxChunksPerQuery) ==
    LET scored == ChunkScores([raised |-> FALSE, scores |-> <<>>],
                              index.keywordsIndex,
                              ExtractKeywordsFromQuestion(question))
        sortedChunkIds == scored.scores
        count == Min(Len(sortedChunkIds), maxChunksPerQuery)
        top == SubSeq(sortedChunkIds, 1, count)
    IN  IF scored.raised \/ \E i \in DOMAIN top : ~Includes(index.chunkIds, top[i].id)
        THEN [raised |-> TRUE, chunks |-> <<>>]
        ELSE [raised |-> FALSE,
              chunks |-> [i \in DOMAIN top |->
                            [id |-> top[i].id, relevanceScore |-> top[i].num,
                             scored |-> TRUE]]]

\* _findRelevantChunksWithKeywords(index, question)
FindRelevantChunksWithKeywords(index, question, maxChunksPerQuery) ==
    LET scored == ChunkScores([raised |-> FALSE, scores |-> <<>>],
                              index.keywordsIndex,
                              ExtractKeywordsFromQuestion(question))
        sortedChunkIds == SortDescending(scored.scores)
        count == Min(Len(sortedChunkIds), maxChunksPerQuery)
        top == SubSeq(sortedChunkIds, 1, count)
    IN  IF scored.raised \/ \E i \in DOMAIN top : ~Includes(index.chunkIds, top[i].id)
        THEN [raised |-> TRUE, chunks |-> <<>>]
        ELSE [raised |-> FALSE,
              chunks |-> [i \in DOMAIN top |->
                            [id |-> top[i].id, relevanceScore |-> top[i].num,
                             scored |-> TRUE]]]

----------------------------------------------------------------------------
(* IndexManager.findRelevantChunks, one step per collaborator call *)

EmptyIndex == [chunkIds |-> <<>>, keywordsIndex |-> [k \in {} |-> <<>>]]

FrIdle ==
    [pc |-> "idle", index |-> EmptyIndex, question |-> <<>>, strategy |-> "none",
     groups |-> <<>>, i |-> 0, groupResults |-> <<>>, responses |-> <<>>,
     usedKeywords |-> FALSE, raised |-> FALSE, relevantChunkIds |-> <<>>,
     result |-> <<>>]

\* groups.push(allChunks.slice(i, i + chunkSize)) for i = 0, chunkSize, ...
RECURSIVE Groups(_, _)
Groups(chunkIds, chunkSize) ==
    IF chunkIds = <<>> THEN <<>>
    ELSE <<Slice(chunkIds, 0, chunkSize)>> \o Groups(SliceFrom(chunkIds, chunkSize), chunkSize)

\* findRelevantChunks up to its first collaborator call: the strategy and,
\* for the split strategy, the groups
FindRelevantChunksBegin(index, question) ==
    LET chunkSize == OrDefault(cfgLlmChunkSize, DefaultLlmChunkSize)
        split == Len(index.chunkIds) > chunkSize /\ cfgUseSplit
    IN  [FrIdle EXCEPT
            !.pc = "llm", !.index = index, !.question = question,
            !.strategy = IF split THEN "split" ELSE "simple",
            !.groups = IF split THEN Groups(index.chunkIds, chunkSize)
                       ELSE <<index.chunkIds>>,
            !.i = 1]

\* variant: every listed chunk is returned
RankedChunksUnlimited(index, relevantChunkIds) ==
    LET found == SelectSeq(relevantChunkIds, LAMBDA id : Includes(index.chunkIds, id))
        keyed == [k \in DOMAIN found |->
                    [id |-> found[k], num |-> IndexOf(relevantChunkIds, found[k]) - 1,
                     den |-> 1]]
        sorted == SortAscending(keyed)
    IN  [k \in DOMAIN sorted |->
            [id |-> sorted[k].id, relevanceScore |-> sorted[k].num, scored |-> TRUE]]

\* the loop over limitedChunkIds and the final sort of findRelevantChunks
RankedChunks(index, relevantChunkIds) ==
    LET maxChunksToReturn == OrDefault(cfgMaxChunks, DefaultMaxChunksPerQuery)
        limitedChunkIds == Slice(relevantChunkIds, 0, maxChunksToReturn)
        found == SelectSeq(limitedChunkIds, LAMBDA id : Includes(index.chunkIds, id))
        keyed == [k \in DOMAIN found |->
                    [id |-> found[k], num |-> IndexOf(relevantChunkIds, found[k]) - 1,
                     den |-> 1]]
        sorted == SortAscending(keyed)
    IN  [k \in DOMAIN sorted |->
            [id |-> sorted[k].id, relevanceScore |-> sorted[k].num, scored |-> TRUE]]

\* relevanceWeighted of group i (1-based) of totalGroups: the score of the id
\* at 0-based rank r of n is totalGroups - (i - 1) + (n - r) / n
RelevanceWeightedByPosition(chunkIds, i, totalGroups) ==
    [k \in DOMAIN chunkIds |->
        [id  |-> chunkIds[k],
         num |-> (totalGroups - (i - 1)) * Len(chunkIds) + k,
         den |-> Len(chunkIds)]]

RelevanceWeighted(chunkIds, i, totalGroups) ==
    [k \in DOMAIN chunkIds |->
        [id  |-> chunkIds[k],
         num |-> (totalGroups - (i - 1)) * Len(chunkIds) + (Len(chunkIds) - (k - 1)),
         den |-> Len(chunkIds)]]

\* variant: the group results are sorted by ascending score
SplitStrategyIdsAscending(groupResults) ==
    LET sorted == SortAscending(groupResults)
    IN  Unique([k \in DOMAIN sorted |-> sorted[k].id])

\* the end of _findRelevantChunksWithSplitStrategy: sort, ids, uniqueIds
SplitStrategyIds(groupResults) ==
    LET sorted == SortDescending(groupResults)
    IN  Unique([k \in DOMAIN sorted |-> sorted[k].id])

\* _findRelevantChunksSimple or _findRelevantChunksWithSplitStrategy called
\* on its own, up to its first collaborator call; an index without chunks
\* gives the split strategy no group and it returns at once
StrategyBegin(index, question, strategy, chunkSize) ==
    LET groups == IF strategy = "split" THEN Groups(index.chunkIds, chunkSize)
                  ELSE <<index.chunkIds>>
    IN  [FrIdle EXCEPT
            !.pc = IF groups = <<>> THEN "done" ELSE "llm",
            !.index = index, !.question = question, !.strategy = strategy,
            !.groups = groups, !.i = 1]

\* the collaborator returns a response to the selection prompt of a strategy:
\* the simple strategy returns the parsed IDs, the split strategy goes on to
\* the next group or returns uniqueIds
AfterStrategyResponse(call, tokens) ==
    LET chunkIds == ParseRelevantChunkIds(tokens)
        logged == [call EXCEPT !.responses = Append(@, [threw |-> FALSE, tokens |-> tokens])]
    IN  IF call.strategy = "simple"
        THEN [logged EXCEPT !.pc = "done", !.relevantChunkIds = chunkIds]
        ELSE LET groupResults == call.groupResults \o
                     RelevanceWeighted(chunkIds, call.i, Len(call.groups))
             IN  IF call.i < Len(call.groups)
                 THEN [logged EXCEPT !.i = call.i + 1, !.groupResults = groupResults]
                 ELSE [logged EXCEPT
                         !.pc = "done", !.groupResults = groupResults,
                         !.relevantChunkIds = SplitStrategyIds(groupResults)]

\* the collaborator call of a strategy throws: the strategy logs and rethrows
AfterStrategyThrow(call) ==
    [call EXCEPT !.pc = "done",
                 !.responses = Append(@, [threw |-> TRUE, tokens |-> <<>>]),
                 !.raised = TRUE]

\* the collaborator returns a response to the selection prompt: when the
\* strategy has returned, findRelevantChunks limits and ranks its IDs
AfterSelectionResponse(call, tokens) ==
    LET returned == AfterStrategyResponse(call, tokens)
    IN  IF returned.pc = "done"
        THEN [returned EXCEPT
                !.result = RankedChunks(call.index, returned.relevantChunkIds)]
        ELSE returned

\* _findRelevantChunksWithKeywords called on its own, before it runs
KeywordSearchBegin(index, question) ==
    [FrIdle EXCEPT !.pc = "keywords", !.index = index, !.question = question,
                   !.strategy = "keywords"]

\* _findRelevantChunksWithKeywords returns its chunks, or throws
AfterKeywordSearch(call) ==
    LET found == FindRelevantChunksWithKeywords(call.index, call.question, cfgMaxChunks)
    IN  [call EXCEPT !.pc = "done", !.usedKeywords = TRUE,
                     !.raised = found.raised, !.result = found.chunks]

\* the collaborator call throws: the catch block of findRelevantChunks
AfterSelectionThrow(call) ==
    LET fallback == FindRelevantChunksWithKeywords(call.index, call.question, cfgMaxChunks)
    IN  [call EXCEPT !.pc = "done",
                     !.responses = Append(@, [threw |-> TRUE, tokens |-> <<>>]),
                     !.usedKeywords = TRUE,
                     !.raised = fallback.raised,
                     !.result = fallback.chunks]

----------------------------------------------------------------------------
(* IndexManager: createIndex, loadIndex, deleteIndex.  A summary and an     *)
(* index name are sequences of characters; the store holds, per index id,   *)
(* the JSON content of the index file.                                      *)

\* chunks.map(chunk => chunk.summary).join('\n\n')
RECURSIVE JoinSummaries(_)
JoinSummaries(chunks) ==
    IF chunks = <<>> THEN <<>>
    ELSE IF Len(chunks) = 1 THEN chunks[1].summary
         ELSE chunks[1].summary \o <<"\n", "\n">> \o JoinSummaries(Tail(chunks))

\* _createOverallSummary(chunks)
CreateOverallSummary(chunks) ==
    LET summaries == JoinSummaries(chunks)
        maxSummaryLength == OrDefault(cfgMaxOverallSummaryLength,
                                      DefaultMaxOverallSummaryLength)
    IN  IF Len(summaries) <= maxSummaryLength THEN summaries
        ELSE SubSeq(summaries, 1, maxSummaryLength) \o <<".", ".", ".">>

Digits == {"0", "1", "2", "3", "4", "5", "6", "7", "8", "9"}

\* replace(/-+/g, '-')
RECURSIVE CollapseDashes(_)
CollapseDashes(s) ==
    IF Len(s) < 2 THEN s
    ELSE IF s[1] = "-" /\ s[2] = "-" THEN CollapseDashes(Tail(s))
         ELSE <<s[1]>> \o CollapseDashes(Tail(s))

\* _normalizeIndexName(name): lower case, every character outside a-z0-9
\* becomes a dash, runs of dashes collapse, a leading and a trailing dash go
NormalizeIndexName(name) ==
    LET lowered == [k \in DOMAIN name |-> ToLowerChar(name[k])]
        dashed == [k \in DOMAIN name |->
                     IF lowered[k] \in Range(LowerCase) \cup Digits
                     THEN lowered[k] ELSE "-"]
        collapsed == CollapseDashes(dashed)
        front == IF collapsed # <<>> /\ Head(collapsed) = "-"
                 THEN Tail(collapsed) ELSE collapsed
    IN  IF front # <<>> /\ front[Len(front)] = "-"
        THEN SubSeq(front, 1, Len(front) - 1) ELSE front

\* the last position of a chunk with this id: a later index.chunks[chunk.id]
\* assignment replaces an earlier one
LastWithId(enrichedChunks, chunkId) ==
    CHOOSE k \in DOMAIN enrichedChunks :
        /\ enrichedChunks[k].id = chunkId
        /\ \A j \in (k + 1)..Len(enrichedChunks) : enrichedChunks[j].id # chunkId

\* the index object createIndex builds for indexId; name is <<>> when
\* options.name is absent
IndexObject(enrichedChunks, indexId, name) ==
    LET built == CreateIndexObject(enrichedChunks)
    IN  [id |-> indexId,
         name |-> IF name # <<>> THEN name ELSE indexId,
         chunkCount |-> Len(enrichedChunks),
         chunkIds |-> built.chunkIds,
         chunks |-> [c \in Range(built.chunkIds) |->
                       LET chunk == enrichedChunks[LastWithId(enrichedChunks, c)]
                       IN  [id |-> chunk.id, summary |-> chunk.summary,
                            keywords |-> chunk.keywords]],
         keywordsIndex |-> built.keywordsIndex,
         overallSummary |-> CreateOverallSummary(enrichedChunks)]

\* the value loadIndex returns for a missing file stands for null
NullIndex ==
    [id |-> <<>>, name |-> <<>>, chunkCount |-> 0, chunkIds |-> <<>>,
     chunks |-> [c \in {} |-> <<>>], keywordsIndex |-> [k \in {} |-> <<>>],
     overallSummary |-> <<>>]

\* the outcome of a completed IndexManager call: returned is TRUE when
\* createIndex returned an id, loadIndex an index, deleteIndex true; index is
\* the index loadIndex returned
IndexOutcome(op, indexId, raised, returned, index) ==
    [op |-> op, indexId |-> indexId, raised |-> raised, returned |-> returned,
     index |-> index]

\* no IndexManager call made; enrichedChunks and name are the arguments of
\* the createIndex calls to come
IxIdle == [enrichedChunks |-> <<>>, name |-> <<>>, calls |-> <<>>]

----------------------------------------------------------------------------
(* IterativeAnswerer.generateAnswer, one step per await *)

NoAnswer == ""          \* the empty string

GaIdle ==
    [pc |-> "idle", relevantChunks |-> <<>>, sortedChunks |-> <<>>, i |-> 0,
     phase |-> "none", currentAnswer |-> NoAnswer, waitTime |-> 0,
     outstanding |-> 0, calls |-> <<>>, raised |-> FALSE, result |-> NoAnswer]

\* chunk.content.length of the chunks handed to generateAnswer
ChunkContentLengths ==
    [id \in Range(ChunkNames) |->
        IF id = "c1" THEN 120 ELSE IF id = "c2" THEN 2000 ELSE 6001]

\* the length of a collaborator's answer text
AnswerLengths ==
    [text \in {"", "a1", "a2"} |->
        IF text = "" THEN 0 ELSE IF text = "a1" THEN 40 ELSE 3000]

\* variant: no floor on the pacing interval
CalculateWaitTimeNoFloor(inputLength) ==
    MathCeil(inputLength * 15000, OrDefault(cfgTokenRate, DefaultTokenRatePerMinute))

\* _calculateWaitTime(inputString), on the length of inputString:
\* Math.max(500, Math.ceil((length / 4 / tokenRatePerMinute) * 60 * 1000))
CalculateWaitTime(inputLength) ==
    Max(MinWaitTimeMs,
        MathCeil(inputLength * 15000,
                 OrDefault(cfgTokenRate, DefaultTokenRatePerMinute)))

\* [...relevantChunks].sort(...): by relevanceScore when the chunks carry
\* one (scored), else the comparator returns 0 and the order is kept
SortedChunks(relevantChunks) ==
    IF \E k \in DOMAIN relevantChunks : ~relevantChunks[k].scored
    THEN relevantChunks
    ELSE LET keyed == [k \in DOMAIN relevantChunks |->
                         [chunk |-> relevantChunks[k],
                          num |-> relevantChunks[k].relevanceScore, den |-> 1]]
             sorted == SortAscending(keyed)
         IN  [k \in DOMAIN sorted |-> sorted[k].chunk]

\* generateAnswer up to its first await: the pacing sleep of the first chunk,
\* or the return of the empty answer when there is no chunk
GenerateAnswerBegin(relevantChunks) ==
    LET sortedChunks == SortedChunks(relevantChunks)
    IN  IF sortedChunks = <<>>
        THEN [GaIdle EXCEPT !.pc = "done", !.relevantChunks = relevantChunks]
        ELSE [GaIdle EXCEPT !.pc = "sleep", !.relevantChunks = relevantChunks,
                            !.sortedChunks = sortedChunks, !.i = 1,
                            !.phase = "chunk",
                            !.waitTime = CalculateWaitTime(
                                ChunkContentLengths[sortedChunks[1].id])]

\* the pacing sleep ends and the prompt is sent: sendPrompt for chunk i, or
\* _generateFinalSummary
AfterSleep(call) ==
    [call EXCEPT
        !.pc = "call",
        !.outstanding = @ + 1,
        !.calls = Append(@, [kind |-> call.phase,
                             waited |-> call.waitTime,
                             chunk |-> IF call.phase = "chunk"
                                       THEN call.sortedChunks[call.i].id ELSE "",
                             prior |-> call.currentAnswer,
                             threw |-> FALSE,
                             response |-> NoAnswer])]

\* variant: the final summary is requested after a single chunk too
AfterAnswerAlwaysPolishes(call, response) ==
    LET logged == [call EXCEPT !.currentAnswer = response,
                               !.outstanding = @ - 1,
                               !.calls[Len(call.calls)].response = response]
    IN  IF call.phase = "chunk" /\ call.i < Len(call.sortedChunks)
        THEN [logged EXCEPT !.pc = "sleep", !.i = call.i + 1,
                            !.waitTime = CalculateWaitTime(
                                ChunkContentLengths[call.sortedChunks[call.i + 1].id])]
        ELSE IF call.phase = "chunk"
             THEN [logged EXCEPT !.pc = "sleep", !.phase = "final",
                                 !.waitTime = CalculateWaitTime(AnswerLengths[response])]
             ELSE [logged EXCEPT !.pc = "done", !.result = response]

\* the collaborator returns: currentAnswer = chunkResponse, then the next
\* chunk, the final summary (more than one chunk) or the return
AfterAnswerResponse(call, response) ==
    LET logged == [call EXCEPT !.currentAnswer = response,
                               !.outstanding = @ - 1,
                               !.calls[Len(call.calls)].response = response]
    IN  IF call.phase = "chunk" /\ call.i < Len(call.sortedChunks)
        THEN [logged EXCEPT !.pc = "sleep", !.i = call.i + 1,
                            !.waitTime = CalculateWaitTime(
                                ChunkContentLengths[call.sortedChunks[call.i + 1].id])]
        ELSE IF call.phase = "chunk" /\ Len(call.sortedChunks) > 1
             THEN [logged EXCEPT !.pc = "sleep", !.phase = "final",
                                 !.waitTime = CalculateWaitTime(AnswerLengths[response])]
             ELSE [logged EXCEPT !.pc = "done", !.result = response]

\* variant: a failed call ends the loop and the answer so far is returned
AfterAnswerThrowReturnsPartial(call) ==
    [call EXCEPT !.pc = "done", !.result = call.currentAnswer,
                 !.outstanding = @ - 1,
                 !.calls[Len(call.calls)].threw = TRUE]

\* the collaborator call throws: the catch block rethrows
AfterAnswerThrow(call) ==
    [call EXCEPT !.pc = "done", !.raised = TRUE,
                 !.outstanding = @ - 1,
                 !.calls[Len(call.calls)].threw = TRUE]

----------------------------------------------------------------------------
(* FileProcessor.splitIntoChunks.  A text is the sequence of its characters, *)
(* a file path the sequence of its components.                               *)

\* path.basename(filePath)
Basename(filePath) == filePath[Len(filePath)]

\* the template string of a chunk id: basename, "_chunk_", chunkIndex
ChunkId(filePath, chunkIndex) == <<Basename(filePath), "_chunk_", chunkIndex>>

\* content.substring(from, to), 0-based, to exclusive
Substring(content, from, to) == SubSeq(content, from + 1, to)

\* variant: endPosition is stored as the exclusive end
NewChunkExclusiveEnd(id, content, filePath, startPosition, endPosition) ==
    [id |-> id, content |-> content, filePath |-> filePath,
     startPosition |-> startPosition, endPosition |-> endPosition + 1,
     summary |-> <<>>, keywords |-> <<>>]

\* new Chunk({id, content, filePath, startPosition, endPosition}): summary
\* defaults to '' and keywords to []
NewChunk(id, content, filePath, startPosition, endPosition) ==
    [id |-> id, content |-> content, filePath |-> filePath,
     startPosition |-> startPosition, endPosition |-> endPosition,
     summary |-> <<>>, keywords |-> <<>>]

\* Math.floor((claudeMaxTokens * chunkSizePercentage / 100) * tokensToCharsRatio)
MaxChunkSize == (cfgClaudeMaxTokens * cfgChunkSizePercentage * 4) \div 100

\* variant: the whole overlap is added on each side of a chunk
ChunkPaddingWhole == (MaxChunkSize * cfgOverlapPercentage) \div 100

\* Math.floor(maxChunkSize * overlapPercentage / 200)
ChunkPadding == (MaxChunkSize * cfgOverlapPercentage) \div 200

\* variant: the stride is the padded chunk size
RECURSIVE SplitLoopPaddedStride(_, _, _, _)
SplitLoopPaddedStride(content, filePath, currentStartingPosition, chunkIndex) ==
    IF currentStartingPosition < Len(content)
    THEN LET currentEndingPosition ==
                 Min(currentStartingPosition + MaxChunkSize, Len(content))
             paddedStartingPos == Max(0, currentStartingPosition - ChunkPadding)
             paddedEndingPos == Min(currentEndingPosition + ChunkPadding, Len(content))
         IN  <<NewChunk(ChunkId(filePath, chunkIndex),
                        Substring(content, paddedStartingPos, paddedEndingPos),
                        filePath, paddedStartingPos, paddedEndingPos - 1)>>
             \o SplitLoopPaddedStride(content, filePath,
                    currentStartingPosition + MaxChunkSize + 2 * ChunkPadding,
                    chunkIndex + 1)
    ELSE <<>>

\* the while loop of splitIntoChunks
RECURSIVE SplitLoop(_, _, _, _)
SplitLoop(content, filePath, currentStartingPosition, chunkIndex) ==
    IF currentStartingPosition < Len(content)
    THEN LET currentEndingPosition ==
                 Min(currentStartingPosition + MaxChunkSize, Len(content))
             paddedStartingPos == Max(0, currentStartingPosition - ChunkPadding)
             paddedEndingPos == Min(currentEndingPosition + ChunkPadding, Len(content))
         IN  <<NewChunk(ChunkId(filePath, chunkIndex),
                        Substring(content, paddedStartingPos, paddedEndingPos),
                        filePath, paddedStartingPos, paddedEndingPos - 1)>>
             \o SplitLoop(content, filePath,
                          currentStartingPosition + MaxChunkSize, chunkIndex + 1)
    ELSE <<>>

\* variant: an empty text yields no chunk
SplitSkipsEmpty(content, filePath) ==
    IF content = <<>> THEN <<>>
    ELSE IF Len(content) <= MaxChunkSize
         THEN <<NewChunk(ChunkId(filePath, 1), content, filePath, 0, Len(content) - 1)>>
         ELSE SplitLoop(content, filePath, 0, 1)

\* splitIntoChunks(content, filePath)
SplitIntoChunks(content, filePath) ==
    IF Len(content) <= MaxChunkSize
    THEN <<NewChunk(ChunkId(filePath, 1), content, filePath, 0, Len(content) - 1)>>
    ELSE SplitLoop(content, filePath, 0, 1)

SpIdle == [pc |-> "idle", content |-> <<>>, filePath |-> <<>>, chunks |-> <<>>]

\* no splitIntoChunks call; the chunking configuration of config/default.json
\* scaled down
NoSplitting ==
    /\ cfgClaudeMaxTokens = 50
    /\ cfgChunkSizePercentage = 2
    /\ cfgOverlapPercentage = 10
    /\ sp = SpIdle

----------------------------------------------------------------------------
(* AppController.createIndex, one step per collaborator call.  The path is  *)
(* a file, or a directory given as its supported files in the order         *)
(* processDirectory visits them; a file is its path and its text.           *)

\* no AppController.createIndex call
CiIdle ==
    [pc |-> "idle", isDirectory |-> FALSE, files |-> <<>>, name |-> <<>>,
     shouldCreateFullIndex |-> FALSE, chunks |-> <<>>, enrichedChunks |-> <<>>,
     failed |-> <<>>, raised |-> FALSE, returned |-> FALSE, indexId |-> <<>>]

\* the summary _enrichChunks stores for a chunk whose enrichment failed
SummaryGenerationFailed ==
    <<"S", "u", "m", "m", "a", "r", "y", " ", "g", "e", "n", "e", "r", "a",
      "t", "i", "o", "n", " ", "f", "a", "i", "l", "e", "d">>

\* _shouldCreateFullIndex(path): estimatedTokens > thresholdTokens, with
\* estimatedTokens = totalSize / 4 and
\* thresholdTokens = claudeMaxTokens * (thresholdPercentage / 100)
ShouldCreateFullIndex(isDirectory, totalSize) ==
    LET thresholdPercentage == OrDefault(cfgNoIndexThreshold, DefaultNoIndexThreshold)
    IN  isDirectory \/ totalSize * 100 > 4 * cfgClaudeMaxTokens * thresholdPercentage

\* processDirectory: the chunks of every file, concatenated
RECURSIVE ProcessFiles(_)
ProcessFiles(files) ==
    IF files = <<>> THEN <<>>
    ELSE SplitIntoChunks(Head(files).content, Head(files).filePath)
             \o ProcessFiles(Tail(files))

\* processPath(path)
ProcessPath(isDirectory, files) ==
    IF isDirectory THEN ProcessFiles(files)
    ELSE SplitIntoChunks(files[1].content, files[1].filePath)

\* createIndex(path, options) up to its first collaborator call
AppCreateIndexBegin(isDirectory, files, name) ==
    LET full == ShouldCreateFullIndex(isDirectory,
                                      IF isDirectory THEN 0 ELSE Len(files[1].content))
        chunks == ProcessPath(isDirectory, files)
    IN  [CiIdle EXCEPT
            !.pc = IF full THEN (IF chunks = <<>> THEN "create" ELSE "enrich")
                   ELSE IF Len(chunks) = 1 THEN "summary" ELSE "create",
            !.isDirectory = isDirectory, !.files = files, !.name = name,
            !.shouldCreateFullIndex = full, !.chunks = chunks]

\* _enrichChunks: the next chunk is pushed with its enrichment and the pacing
\* sleep ends
Enriched(call, chunk, failed) ==
    LET enrichedChunks == Append(call.enrichedChunks, chunk)
    IN  [call EXCEPT
            !.pc = IF Len(enrichedChunks) = Len(call.chunks) THEN "create" ELSE "enrich",
            !.enrichedChunks = enrichedChunks,
            !.failed = Append(@, failed)]

\* createSummaryAndKeywords returns for the next chunk of _enrichChunks
AfterEnrichResponse(call, summary, keywords) ==
    LET chunk == call.chunks[Len(call.enrichedChunks) + 1]
    IN  Enriched(call, [chunk EXCEPT !.summary = summary, !.keywords = keywords], FALSE)

\* createSummaryAndKeywords throws for the next chunk of _enrichChunks
AfterEnrichThrow(call) ==
    LET chunk == call.chunks[Len(call.enrichedChunks) + 1]
    IN  Enriched(call, [chunk EXCEPT !.summary = SummaryGenerationFailed,
                                     !.keywords = <<>>], TRUE)

\* createSummary returns for the single chunk of a simplified index
AfterSummaryResponse(call, summary) ==
    [call EXCEPT !.pc = "create", !.chunks[1].summary = summary,
                 !.failed = <<FALSE>>]

\* createSummary throws for the single chunk of a simplified index: the
\* catch block of createIndex rethrows
AfterSummaryThrow(call) ==
    [call EXCEPT !.pc = "done", !.failed = <<TRUE>>, !.raised = TRUE]

\* the chunks createIndex hands to IndexManager.createIndex
ChunksToIndex(call) ==
    IF call.shouldCreateFullIndex THEN call.enrichedChunks ELSE call.chunks

\* no index call; the indexing configuration of config/default.json scaled
\* down
NoIndexing ==
    /\ cfgMaxOverallSummaryLength = 2
    /\ cfgNoIndexThreshold = 30
    /\ ix = IxIdle
    /\ ci = CiIdle

----------------------------------------------------------------------------
(* Inputs *)

\* keyword lists enrichment attaches to a chunk
KeywordChoices == {<<Pricing>>, <<Refund, Pricing>>}

\* summaries enrichment attaches to a chunk
SummaryTexts == {<<"s">>, <<"s", "u", "m">>}

\* keyword lists of the chunks handed to createIndex
IndexKeywordChoices ==
    KeywordChoices \cup {<<Constructor>>, <<<<"P">> \o Tail(Pricing), Refund, Refund>>}

\* the enriched chunk lists handed to createIndex
IndexInputs ==
    UNION {{[k \in 1..n |-> [id |-> ChunkNames[k], summary |-> su[k],
                             keywords |-> kw[k]]] :
              su \in [1..n -> SummaryTexts], kw \in [1..n -> IndexKeywordChoices]} :
           n \in 0..MaxChunks}

\* options.name: absent, or a name
IndexNames == {<<>>, <<"M", "y", " ", "D", "o", "c", "s", "!">>}

\* ids uuidv4() yields
UuidIds == {<<"u", "1">>, <<"u", "2">>}

\* index ids loadIndex and deleteIndex are called with
IdsToTry == UuidIds \cup {NormalizeIndexName(name) : name \in IndexNames \ {<<>>}}

\* the characters of a text
Characters == {"a", "b"}

Texts == UNION {[1..n -> Characters] : n \in 0..MaxTextLen}

FilePaths == {<<"notes.txt">>, <<"docs", "guide.md">>, <<"src", "guide.md">>}

\* values of claude.maxTokens, chunking.chunkSizePercentage and
\* chunking.overlapPercentage: chunk sizes of 2, 3, 4 and 6 characters
TokenWindows == {50, 75}
ChunkSizePercentages == {1, 2}
OverlapPercentages == {0, 10, 50, 100}

\* texts of the files of a directory
DirectoryTexts == {<<"a">>, <<"a", "b", "a", "b", "a">>}

\* the files of a directory, in the order processDirectory visits them
Directories ==
    UNION {{files \in [1..n -> [filePath : FilePaths, content : DirectoryTexts]] :
              \A j, k \in 1..n : j # k => files[j].filePath # files[k].filePath} :
           n \in 0..MaxFiles}

\* texts of a single file
FileTexts == {[k \in 1..n |-> "a"] : n \in 0..MaxTextLen}

\* values of indexing.noIndexThresholdPercentage: unset, or 2
NoIndexThresholds == {0, 2}

\* keyword lists of the chunks of an index questions are asked about
ChunkKeywordChoices == KeywordChoices \cup {<<Refund>>}

\* the enriched chunks of a document of n chunks
EnrichedChunkLists(n) ==
    {[k \in 1..n |-> [id |-> ChunkNames[k], keywords |-> kw[k]]] :
        kw \in [1..n -> ChunkKeywordChoices]}

\* the index files createIndex can have written
CreatedIndexes ==
    {[chunkIds |-> CreateIndexObject(chunks).chunkIds,
      keywordsIndex |-> CreateIndexObject(chunks).keywordsIndex] :
        chunks \in {c \in UNION {EnrichedChunkLists(n) : n \in 0..MaxChunks} :
                        ~CreateIndexObject(c).raised}}

QuestionWords == {Pricing, Refund, Constructor}

Questions == UNION {[1..n -> QuestionWords] : n \in 1..MaxQuestionWords}

\* responses of the collaborator to a selection prompt
SelectionResponses ==
    {<<TokLB, TokRB>>,
     <<TokLB, TokQuoted("c1"), TokRB>>,
     <<TokLB, TokQuoted("c2"), TokQuoted("c1"), TokRB>>,
     <<TokLB, TokQuoted("c3"), TokQuoted("zz"), TokQuoted("c1"), TokRB>>,
     <<TokLB, TokQuoted("c1"), TokQuoted("c1"), TokQuoted("c2"), TokRB>>,
     <<TokWord, TokQuoted("c2"), TokWord, TokQuoted("c1")>>,
     <<TokWord, TokWord>>,
     <<TokLB, TokWord, TokQuoted("c1"), TokRB>>,
     <<TokRB, TokQuoted("c1"), TokLB>>}

\* question words as the user writes them: bare, capitalised, and with a
\* question mark, a comma or quotation marks next to the word
WrittenWords ==
    {Pricing, Refund,
     <<"P">> \o Tail(Pricing),
     Pricing \o <<"?">>,
     Pricing \o <<",">>,
     <<"\"">> \o Refund \o <<"\"">>}

WrittenQuestions == UNION {[1..n -> WrittenWords] : n \in 1..MaxQuestionWords}

\* the chunkSize argument of the split strategy
GroupSizes == 1..MaxChunks

\* values of claude.tokenRatePerMinute: unset, or 60000
TokenRates == {0, 60000}

\* chunk lists handed to generateAnswer: all with a relevanceScore, or none
AnswerInputs ==
    UNION {{[k \in 1..n |-> [id |-> ChunkNames[k], relevanceScore |-> sc[k],
                             scored |-> TRUE]] : sc \in [1..n -> 0..(MaxChunks - 1)]}
           \cup {[k \in 1..n |-> [id |-> ChunkNames[k], relevanceScore |-> 0,
                                  scored |-> FALSE]]} : n \in 0..MaxChunks}

\* the index the orchestrator answers questions about
AppIndex ==
    LET built == CreateIndexObject(<<[id |-> "c1", keywords |-> <<Pricing>>],
                                     [id |-> "c2", keywords |-> <<Refund, Pricing>>]>>)
    IN  [chunkIds |-> built.chunkIds, keywordsIndex |-> built.keywordsIndex]

AppQuestions == {<<Pricing>>, <<Refund, Pricing>>}

----------------------------------------------------------------------------
(* Actions *)

\* before: the conversation store when the call started
AqIdle ==
    [pc |-> "idle", indexId |-> "", question |-> <<>>, conversationId |-> "",
     conversation |-> "", raised |-> FALSE, answer |-> NoAnswer,
     before |-> [c \in {} |-> NewConversation("", "")]]

Quiet == aq.pc \in {"idle", "done"}

TotalExchanges ==
    LET RECURSIVE Sum(_)
        Sum(S) == IF S = {} THEN 0
                  ELSE LET c == CHOOSE c \in S : TRUE
                       IN  conversations[c].exchangeCount + Sum(S \ {c})
    IN  Sum(DOMAIN conversations)

\* ConversationManager.createConversation(indexId); the uuid is a fresh id
CreateConversation ==
    \E indexId \in IndexIds, conversationId \in ConvIds \ DOMAIN conversations :
        /\ Quiet
        /\ conversations' = SaveConversation(conversations, conversationId,
                                NewConversation(conversationId, indexId))
        /\ last' = [NoOutcome EXCEPT !.op = "createConversation",
                                     !.conversationId = conversationId]
        /\ UNCHANGED <<config, indexes, sp, ix, ci, fr, ga, aq>>

\* ConversationManager.deleteConversation(conversationId)
DeleteConversation ==
    \E conversationId \in ConvIds :
        /\ Quiet
        /\ conversations' = IF ConversationExists(conversationId)
                            THEN RemoveConversation(conversations, conversationId)
                            ELSE conversations
        /\ last' = [NoOutcome EXCEPT !.op = "deleteConversation",
                                     !.conversationId = conversationId]
        /\ UNCHANGED <<config, indexes, sp, ix, ci, fr, ga, aq>>

\* ConversationManager.addExchange(conversationId, question, answer)
AddExchange ==
    \E conversationId \in ConvIds, question \in AppQuestions,
       answer \in AnswerTexts, llmOk \in BOOLEAN :
        /\ Quiet
        /\ TotalExchanges < MaxExchanges
        /\ IF ConversationExists(conversationId)
           THEN /\ conversations' =
                     SaveConversation(conversations, conversationId,
                         AddExchangeResult(conversations[conversationId],
                                           question, answer, llmOk))
                /\ last' = AddExchangeOutcome(conversationId,
                               conversations[conversationId], question, answer, llmOk)
           ELSE /\ conversations' = conversations
                /\ last' = [NoOutcome EXCEPT !.op = "addExchange",
                                             !.conversationId = conversationId,
                                             !.raised = TRUE]
        /\ UNCHANGED <<config, indexes, sp, ix, ci, fr, ga, aq>>

\* the collaborator answers the selection prompt of findRelevantChunks
LlmSelectReturns ==
    \E tokens \in SelectionResponses :
        /\ fr.pc = "llm"
        /\ fr' = AfterSelectionResponse(fr, tokens)
        /\ UNCHANGED <<config, indexes, sp, ix, ci, conversations, ga, aq, last>>

\* the collaborator call of findRelevantChunks throws
LlmSelectThrows ==
    /\ fr.pc = "llm"
    /\ fr' = AfterSelectionThrow(fr)
    /\ UNCHANGED <<config, indexes, sp, ix, ci, conversations, ga, aq, last>>

\* the collaborator answers the selection prompt of a strategy called on
\* its own
StrategySelectReturns ==
    \E tokens \in SelectionResponses :
        /\ fr.pc = "llm"
        /\ fr' = AfterStrategyResponse(fr, tokens)
        /\ UNCHANGED <<config, indexes, sp, ix, ci, conversations, ga, aq, last>>

\* the collaborator call of a strategy called on its own throws
StrategySelectThrows ==
    /\ fr.pc = "llm"
    /\ fr' = AfterStrategyThrow(fr)
    /\ UNCHANGED <<config, indexes, sp, ix, ci, conversations, ga, aq, last>>

\* _findRelevantChunksWithKeywords(index, question) runs
KeywordSearch ==
    /\ fr.pc = "keywords"
    /\ fr' = AfterKeywordSearch(fr)
    /\ UNCHANGED <<config, indexes, sp, ix, ci, conversations, ga, aq, last>>

\* the pacing sleep of generateAnswer ends
SleepEnds ==
    /\ ga.pc = "sleep"
    /\ ga' = AfterSleep(ga)
    /\ UNCHANGED <<config, indexes, sp, ix, ci, conversations, fr, aq, last>>

\* the collaborator answers a prompt of generateAnswer
LlmAnswerReturns ==
    \E response \in AnswerTexts :
        /\ ga.pc = "call"
        /\ ga' = AfterAnswerResponse(ga, response)
        /\ UNCHANGED <<config, indexes, sp, ix, ci, conversations, fr, aq, last>>

\* a collaborator call of generateAnswer throws
LlmAnswerThrows ==
    /\ ga.pc = "call"
    /\ ga' = AfterAnswerThrow(ga)
    /\ UNCHANGED <<config, indexes, sp, ix, ci, conversations, fr, aq, last>>

\* AppController.answerQuestion up to the call of findRelevantChunks
AnswerQuestionStart ==
    \E indexId \in IndexIds, question \in AppQuestions,
       conversationId \in ConvIds \cup {""} :
        /\ Quiet
        /\ TotalExchanges < MaxAnswered
        /\ conversationId = "" => ConvIds \ DOMAIN conversations # {}
        /\ IF indexId \in DOMAIN indexes
           THEN /\ aq' = [AqIdle EXCEPT !.pc = "retrieving", !.indexId = indexId,
                                        !.question = question,
                                        !.conversationId = conversationId,
                                        !.before = conversations]
                /\ fr' = FindRelevantChunksBegin(indexes[indexId], question)
           ELSE /\ aq' = [AqIdle EXCEPT !.pc = "done", !.indexId = indexId,
                                        !.question = question,
                                        !.conversationId = conversationId,
                                        !.before = conversations,
                                        !.raised = TRUE]
                /\ fr' = FrIdle
        /\ ga' = GaIdle
        /\ UNCHANGED <<config, indexes, sp, ix, ci, conversations, last>>

\* answerQuestion from the return of findRelevantChunks to the call of
\* generateAnswer: the conversation is loaded or created
AnswerQuestionConversation ==
    /\ aq.pc = "retrieving"
    /\ fr.pc = "done"
    /\ IF fr.raised \/ (aq.conversationId # "" /\ ~ConversationExists(aq.conversationId))
       THEN /\ aq' = [aq EXCEPT !.pc = "done", !.raised = TRUE]
            /\ UNCHANGED <<conversations, ga, last>>
       ELSE IF aq.conversationId # ""
            THEN /\ aq' = [aq EXCEPT !.pc = "answering",
                                     !.conversation = aq.conversationId]
                 /\ ga' = GenerateAnswerBegin(fr.result)
                 /\ UNCHANGED <<conversations, last>>
            ELSE \E conversationId \in ConvIds \ DOMAIN conversations :
                    /\ conversations' = SaveConversation(conversations, conversationId,
                                            NewConversation(conversationId, aq.indexId))
                    /\ last' = [NoOutcome EXCEPT !.op = "createConversation",
                                                 !.conversationId = conversationId]
                    /\ aq' = [aq EXCEPT !.pc = "answering",
                                        !.conversation = conversationId]
                    /\ ga' = GenerateAnswerBegin(fr.result)
    /\ fr' = FrIdle
    /\ UNCHANGED <<config, indexes, sp, ix, ci>>

\* answerQuestion from the return of generateAnswer: addExchange and return
AnswerQuestionFinish ==
    \E llmOk \in BOOLEAN :
        /\ aq.pc = "answering"
        /\ ga.pc = "done"
        /\ IF ga.raised \/ ~ConversationExists(aq.conversation)
           THEN /\ aq' = [aq EXCEPT !.pc = "done", !.raised = TRUE]
                /\ UNCHANGED <<conversations, last>>
           ELSE /\ conversations' =
                     SaveConversation(conversations, aq.conversation,
                         AddExchangeResult(conversations[aq.conversation],
                                           aq.question, ga.result, llmOk))
                /\ last' = AddExchangeOutcome(aq.conversation,
                               conversations[aq.conversation], aq.question,
                               ga.result, llmOk)
                /\ aq' = [aq EXCEPT !.pc = "done", !.answer = ga.result]
        /\ ga' = GaIdle
        /\ UNCHANGED <<config, indexes, sp, ix, ci, fr>>

\* IndexManager.createIndex(enrichedChunks, options)
CreateIndex ==
    \E indexId \in IdsToTry :
        /\ Len(ix.calls) < MaxIndexCalls
        /\ IF ix.name # <<>> THEN indexId = NormalizeIndexName(ix.name)
           ELSE indexId \in UuidIds \ DOMAIN indexes
        /\ IF CreateIndexObject(ix.enrichedChunks).raised
           THEN /\ indexes' = indexes
                /\ ix' = [ix EXCEPT !.calls =
                            Append(@, IndexOutcome("createIndex", indexId, TRUE,
                                                   FALSE, NullIndex))]
           ELSE /\ indexes' =
                     [i \in (DOMAIN indexes) \cup {indexId} |->
                        IF i = indexId
                        THEN IndexObject(ix.enrichedChunks, indexId, ix.name)
                        ELSE indexes[i]]
                /\ ix' = [ix EXCEPT !.calls =
                            Append(@, IndexOutcome("createIndex", indexId, FALSE,
                                                   TRUE, NullIndex))]
        /\ UNCHANGED <<config, conversations, fr, ga, aq, last, sp, ci>>

\* IndexManager.loadIndex(indexId)
LoadIndex ==
    \E indexId \in IdsToTry :
        /\ Len(ix.calls) < MaxIndexCalls
        /\ ix' = [ix EXCEPT !.calls =
                    Append(@, IF indexId \in DOMAIN indexes
                              THEN IndexOutcome("loadIndex", indexId, FALSE, TRUE,
                                                indexes[indexId])
                              ELSE IndexOutcome("loadIndex", indexId, FALSE, FALSE,
                                                NullIndex))]
        /\ UNCHANGED <<config, indexes, conversations, fr, ga, aq, last, sp, ci>>

\* variant: deleteIndex reports the file and leaves it in place
DeleteIndexKeepsFile ==
    \E indexId \in IdsToTry :
        /\ Len(ix.calls) < MaxIndexCalls
        /\ ix' = [ix EXCEPT !.calls =
                    Append(@, IndexOutcome("deleteIndex", indexId, FALSE,
                                           indexId \in DOMAIN indexes, NullIndex))]
        /\ UNCHANGED <<config, indexes, conversations, fr, ga, aq, last, sp, ci>>

\* IndexManager.deleteIndex(indexId)
DeleteIndex ==
    \E indexId \in IdsToTry :
        /\ Len(ix.calls) < MaxIndexCalls
        /\ indexes' = [i \in (DOMAIN indexes) \ {indexId} |-> indexes[i]]
        /\ ix' = [ix EXCEPT !.calls =
                    Append(@, IndexOutcome("deleteIndex", indexId, FALSE,
                                           indexId \in DOMAIN indexes, NullIndex))]
        /\ UNCHANGED <<config, conversations, fr, ga, aq, last, sp, ci>>

\* splitIntoChunks runs to its return
SplitIntoChunksReturns ==
    /\ sp.pc = "call"
    /\ sp' = [sp EXCEPT !.pc = "done",
                        !.chunks = SplitIntoChunks(sp.content, sp.filePath)]
    /\ UNCHANGED <<config, indexes, conversations, fr, ga, aq, last, ix, ci>>

\* createSummaryAndKeywords returns a summary and keywords for the next
\* chunk of _enrichChunks
EnrichReturns ==
    \E summary \in SummaryTexts, keywords \in IndexKeywordChoices :
        /\ ci.pc = "enrich"
        /\ ci' = AfterEnrichResponse(ci, summary, keywords)
        /\ UNCHANGED <<config, indexes, conversations, fr, ga, aq, last, sp, ix>>

\* createSummaryAndKeywords throws for the next chunk of _enrichChunks
EnrichThrows ==
    /\ ci.pc = "enrich"
    /\ ci' = AfterEnrichThrow(ci)
    /\ UNCHANGED <<config, indexes, conversations, fr, ga, aq, last, sp, ix>>

\* createSummary returns the summary of the single chunk
SummaryReturns ==
    \E summary \in SummaryTexts :
        /\ ci.pc = "summary"
        /\ ci' = AfterSummaryResponse(ci, summary)
        /\ UNCHANGED <<config, indexes, conversations, fr, ga, aq, last, sp, ix>>

\* createSummary throws
SummaryThrows ==
    /\ ci.pc = "summary"
    /\ ci' = AfterSummaryThrow(ci)
    /\ UNCHANGED <<config, indexes, conversations, fr, ga, aq, last, sp, ix>>

\* indexManager.createIndex(chunks, options) saves the index and
\* AppController.createIndex returns its id, or throws and it rethrows
IndexManagerCreates ==
    \E indexId \in IdsToTry :
        /\ ci.pc = "create"
        /\ IF ci.name # <<>> THEN indexId = NormalizeIndexName(ci.name)
           ELSE indexId \in UuidIds \ DOMAIN indexes
        /\ IF CreateIndexObject(ChunksToIndex(ci)).raised
           THEN /\ indexes' = indexes
                /\ ci' = [ci EXCEPT !.pc = "done", !.raised = TRUE]
           ELSE /\ indexes' =
                     [i \in (DOMAIN indexes) \cup {indexId} |->
                        IF i = indexId
                        THEN IndexObject(ChunksToIndex(ci), indexId, ci.name)
                        ELSE indexes[i]]
                /\ ci' = [ci EXCEPT !.pc = "done", !.returned = TRUE,
                                    !.indexId = indexId]
        /\ UNCHANGED <<config, conversations, fr, ga, aq, last, sp, ix>>

----------------------------------------------------------------------------
(* Specifications *)

ConfigValues == 1..MaxConfig

\* the orchestrator: questions about one stored index
Init ==
    /\ cfgMaxRecent \in ConfigValues
    /\ cfgMergeFreq \in ConfigValues
    /\ cfgMaxChunks = MaxConfig
    /\ cfgUseSplit \in BOOLEAN
    /\ cfgLlmChunkSize = 1
    /\ cfgTokenRate = 0
    /\ indexes = [i \in {"idx1"} |-> AppIndex]
    /\ conversations = [c \in {} |-> NewConversation("", "")]
    /\ fr = FrIdle
    /\ ga = GaIdle
    /\ aq = AqIdle
    /\ last = NoOutcome
    /\ NoSplitting
    /\ NoIndexing

Next ==
    \/ AnswerQuestionStart
    \/ LlmSelectReturns
    \/ LlmSelectThrows
    \/ AnswerQuestionConversation
    \/ SleepEnds
    \/ LlmAnswerReturns
    \/ LlmAnswerThrows
    \/ AnswerQuestionFinish

Spec == Init /\ [][Next]_vars

\* the conversation store on its own
InitConv ==
    /\ cfgMaxRecent \in ConfigValues
    /\ cfgMergeFreq \in ConfigValues
    /\ cfgMaxChunks = MaxConfig
    /\ cfgUseSplit = FALSE
    /\ cfgLlmChunkSize = 1
    /\ cfgTokenRate = 0
    /\ indexes = [i \in {"idx1"} |-> AppIndex]
    /\ conversations = [c \in {} |-> NewConversation("", "")]
    /\ fr = FrIdle
    /\ ga = GaIdle
    /\ aq = AqIdle
    /\ last = NoOutcome
    /\ NoSplitting
    /\ NoIndexing

NextConv ==
    \/ CreateConversation
    \/ DeleteConversation
    \/ AddExchange

SpecConv == InitConv /\ [][NextConv]_vars

\* one findRelevantChunks call on any created index
InitRetrieve ==
    /\ cfgMaxRecent = 1
    /\ cfgMergeFreq = 1
    /\ cfgMaxChunks \in ConfigValues
    /\ cfgUseSplit \in BOOLEAN
    /\ cfgLlmChunkSize \in ConfigValues
    /\ cfgTokenRate = 0
    /\ indexes = [i \in {} |-> EmptyIndex]
    /\ conversations = [c \in {} |-> NewConversation("", "")]
    /\ \E index \in CreatedIndexes, question \in Questions :
          fr = FindRelevantChunksBegin(index, question)
    /\ ga = GaIdle
    /\ aq = AqIdle
    /\ last = NoOutcome
    /\ NoSplitting
    /\ NoIndexing

NextRetrieve ==
    \/ LlmSelectReturns
    \/ LlmSelectThrows

SpecRetrieve == InitRetrieve /\ [][NextRetrieve]_vars

\* one call of the simple or of the split strategy on any index, with any
\* group size
InitStrategy ==
    /\ cfgMaxRecent = 1
    /\ cfgMergeFreq = 1
    /\ cfgMaxChunks = MaxConfig
    /\ cfgUseSplit = TRUE
    /\ cfgLlmChunkSize = 1
    /\ cfgTokenRate = 0
    /\ indexes = [i \in {} |-> EmptyIndex]
    /\ conversations = [c \in {} |-> NewConversation("", "")]
    /\ \E index \in CreatedIndexes, strategy \in {"simple", "split"},
          chunkSize \in GroupSizes :
          fr = StrategyBegin(index, <<Pricing>>, strategy, chunkSize)
    /\ ga = GaIdle
    /\ aq = AqIdle
    /\ last = NoOutcome
    /\ NoSplitting
    /\ NoIndexing

NextStrategy ==
    \/ StrategySelectReturns
    \/ StrategySelectThrows

SpecStrategy == InitStrategy /\ [][NextStrategy]_vars

\* one call of the keyword strategy on any index, for a question as written
InitKeywords ==
    /\ cfgMaxRecent = 1
    /\ cfgMergeFreq = 1
    /\ cfgMaxChunks \in ConfigValues
    /\ cfgUseSplit = FALSE
    /\ cfgLlmChunkSize = 1
    /\ cfgTokenRate = 0
    /\ indexes = [i \in {} |-> EmptyIndex]
    /\ conversations = [c \in {} |-> NewConversation("", "")]
    /\ \E index \in CreatedIndexes, question \in WrittenQuestions :
          fr = KeywordSearchBegin(index, question)
    /\ ga = GaIdle
    /\ aq = AqIdle
    /\ last = NoOutcome
    /\ NoSplitting
    /\ NoIndexing

NextKeywords == KeywordSearch

SpecKeywords == InitKeywords /\ [][NextKeywords]_vars

\* one generateAnswer call on any chunk list
InitAnswer ==
    /\ cfgMaxRecent = 1
    /\ cfgMergeFreq = 1
    /\ cfgMaxChunks = MaxConfig
    /\ cfgUseSplit = FALSE
    /\ cfgLlmChunkSize = 1
    /\ cfgTokenRate \in TokenRates
    /\ indexes = [i \in {} |-> EmptyIndex]
    /\ conversations = [c \in {} |-> NewConversation("", "")]
    /\ fr = FrIdle
    /\ \E relevantChunks \in AnswerInputs : ga = GenerateAnswerBegin(relevantChunks)
    /\ aq = AqIdle
    /\ last = NoOutcome
    /\ NoSplitting
    /\ NoIndexing

NextAnswer ==
    \/ SleepEnds
    \/ LlmAnswerReturns
    \/ LlmAnswerThrows

SpecAnswer == InitAnswer /\ [][NextAnswer]_vars

\* IndexManager calls on an empty store, for any enriched chunk list
InitIndex ==
    /\ cfgMaxRecent = 1
    /\ cfgMergeFreq = 1
    /\ cfgMaxChunks = MaxConfig
    /\ cfgUseSplit = FALSE
    /\ cfgLlmChunkSize = 1
    /\ cfgTokenRate = 0
    /\ cfgMaxOverallSummaryLength \in ConfigValues
    /\ cfgNoIndexThreshold = 30
    /\ indexes = [i \in {} |-> NullIndex]
    /\ conversations = [c \in {} |-> NewConversation("", "")]
    /\ fr = FrIdle
    /\ ga = GaIdle
    /\ aq = AqIdle
    /\ last = NoOutcome
    /\ cfgClaudeMaxTokens = 50
    /\ cfgChunkSizePercentage = 2
    /\ cfgOverlapPercentage = 10
    /\ sp = SpIdle
    /\ ci = CiIdle
    /\ \E enrichedChunks \in IndexInputs, name \in IndexNames :
          ix = [IxIdle EXCEPT !.enrichedChunks = enrichedChunks, !.name = name]

NextIndex ==
    \/ CreateIndex
    \/ LoadIndex
    \/ DeleteIndex

SpecIndex == InitIndex /\ [][NextIndex]_vars

\* one AppController.createIndex call on a file or a directory
InitBuild ==
    /\ cfgMaxRecent = 1
    /\ cfgMergeFreq = 1
    /\ cfgMaxChunks = MaxConfig
    /\ cfgUseSplit = FALSE
    /\ cfgLlmChunkSize = 1
    /\ cfgTokenRate = 0
    /\ cfgClaudeMaxTokens = 50
    /\ cfgChunkSizePercentage = 2
    /\ cfgOverlapPercentage = 10
    /\ cfgMaxOverallSummaryLength = 2
    /\ cfgNoIndexThreshold \in NoIndexThresholds
    /\ indexes = [i \in {} |-> NullIndex]
    /\ conversations = [c \in {} |-> NewConversation("", "")]
    /\ fr = FrIdle
    /\ ga = GaIdle
    /\ aq = AqIdle
    /\ last = NoOutcome
    /\ sp = SpIdle
    /\ ix = IxIdle
    /\ \E name \in IndexNames :
          \/ \E files \in Directories : ci = AppCreateIndexBegin(TRUE, files, name)
          \/ \E filePath \in FilePaths, content \in FileTexts :
                ci = AppCreateIndexBegin(
                         FALSE, <<[filePath |-> filePath, content |-> content]>>, name)

NextBuild ==
    \/ EnrichReturns
    \/ EnrichThrows
    \/ SummaryReturns
    \/ SummaryThrows
    \/ IndexManagerCreates

SpecBuild == InitBuild /\ [][NextBuild]_vars

\* one splitIntoChunks call on any text under any chunking configuration
InitSplit ==
    /\ cfgMaxRecent = 1
    /\ cfgMergeFreq = 1
    /\ cfgMaxChunks = MaxConfig
    /\ cfgUseSplit = FALSE
    /\ cfgLlmChunkSize = 1
    /\ cfgTokenRate = 0
    /\ cfgClaudeMaxTokens \in TokenWindows
    /\ cfgChunkSizePercentage \in ChunkSizePercentages
    /\ cfgOverlapPercentage \in OverlapPercentages
    /\ indexes = [i \in {} |-> EmptyIndex]
    /\ conversations = [c \in {} |-> NewConversation("", "")]
    /\ fr = FrIdle
    /\ ga = GaIdle
    /\ aq = AqIdle
    /\ last = NoOutcome
    /\ NoIndexing
    /\ \E content \in Texts, filePath \in FilePaths :
          sp = [SpIdle EXCEPT !.pc = "call", !.content = content,
                              !.filePath = filePath]

NextSplit == SplitIntoChunksReturns

SpecSplit == InitSplit /\ [][NextSplit]_vars

----------------------------------------------------------------------------
(* Claims about the conversation store (SpecConv) *)

MaxRecentExchanges == OrDefault(cfgMaxRecent, DefaultMaxRecentExchanges)

\* the conversation the last completed addExchange saved
AddExchangeDone ==
    /\ last.op = "addExchange"
    /\ ~last.raised
    /\ last.conversationId \in DOMAIN conversations

\* C1: after any addExchange call completes, whether or not a compaction
\* ran or succeeded, recentExchanges holds at most maxRecentExchanges
\* exchanges.
C1_RecentWithinMax ==
    AddExchangeDone =>
        Len(conversations[last.conversationId].recentExchanges) <= MaxRecentExchanges

\* a step in which addExchange saved conversation c
AddExchangeStep(c) ==
    /\ c \in DOMAIN conversations
    /\ c \in DOMAIN conversations'
    /\ last'.op = "addExchange"
    /\ last'.conversationId = c
    /\ ~last'.raised
    /\ conversations'[c].exchangeCount # conversations[c].exchangeCount

\* C8: when the compaction call fails inside addExchange, addExchange still
\* succeeds and saves the conversation with historySummary and
\* lastMergeCount unchanged and recentExchanges trimmed to the most recent
\* maxRecentExchanges; the removed exchanges are in neither recentExchanges
\* nor historySummary.
C8_FailedCompaction ==
    [][\A c \in ConvIds :
         (AddExchangeStep(c) /\ last'.mergeFailed) =>
            LET before == conversations[c]
                after == conversations'[c]
                n == Len(before.recentExchanges) + 1
            IN  /\ after.historySummary = before.historySummary
                /\ after.lastMergeCount = before.lastMergeCount
                /\ after.exchangeCount = before.exchangeCount + 1
                /\ \E question \in AppQuestions, answer \in AnswerTexts :
                      after.recentExchanges =
                        SubSeq(Append(before.recentExchanges,
                                      [timestamp |-> before.exchangeCount + 1,
                                       question |-> question, answer |-> answer]),
                               n - MaxRecentExchanges + 1, n)
                /\ last'.removed =
                      Timestamps(SubSeq(before.recentExchanges, 1, n - MaxRecentExchanges))
                /\ last'.removed # {}
                /\ last'.removed \cap Timestamps(after.recentExchanges) = {}
                /\ last'.removed \cap after.historySummary = {}]_vars

C8_Witness ==
    /\ AddExchangeDone
    /\ last.mergeFailed
    /\ last.removed # {}

\* C9: in every reachable state of a conversation lastMergeCount <=
\* exchangeCount, and exchangeCount never decreases: each successful
\* addExchange increases it by exactly one and no other operation changes it.
C9_Counts ==
    /\ [](\A c \in DOMAIN conversations :
            conversations[c].lastMergeCount <= conversations[c].exchangeCount)
    /\ [][\A c \in (DOMAIN conversations) \cap (DOMAIN conversations') :
            LET grown == conversations'[c].exchangeCount - conversations[c].exchangeCount
            IN  /\ grown \in {0, 1}
                /\ grown = 1 => last'.op = "addExchange" /\ last'.conversationId = c
                /\ (last'.op \in {"createConversation", "deleteConversation"})
                      => grown = 0]_vars
    /\ [][(last'.op = "addExchange" /\ ~last'.raised /\ conversations' # conversations) =>
            LET c == last'.conversationId
            IN  conversations'[c].exchangeCount = conversations[c].exchangeCount + 1]_vars

C9_Witness ==
    /\ AddExchangeDone
    /\ last.merged
    /\ ~last.mergeFailed
    /\ conversations[last.conversationId].lastMergeCount =
         conversations[last.conversationId].exchangeCount
    /\ conversations[last.conversationId].exchangeCount > 1

MergeFrequency == OrDefault(cfgMergeFreq, DefaultMergeFrequency)

\* the recent list of c after the push of the step, whatever was pushed
PushedRecent(c, exchanges) ==
    /\ Len(exchanges) = Len(conversations[c].recentExchanges) + 1
    /\ SubSeq(exchanges, 1, Len(exchanges) - 1) = conversations[c].recentExchanges
    /\ exchanges[Len(exchanges)].timestamp = conversations[c].exchangeCount + 1

\* C21: addExchange runs a compaction exactly when, after appending,
\* len(recentExchanges) > maxRecentExchanges and exchangeCount -
\* lastMergeCount >= mergeFrequency; a successful compaction keeps exactly
\* the most recent maxRecentExchanges exchanges in their original order,
\* sends all older recent exchanges together with the previous
\* historySummary in one merge request, replaces historySummary with the
\* response and sets lastMergeCount = exchangeCount; without a compaction
\* the appended list, the summary and lastMergeCount are saved as they are.
C21_CompactionTrigger ==
    [][\A c \in ConvIds :
         AddExchangeStep(c) =>
            LET before == conversations[c]
                after == conversations'[c]
                n == Len(before.recentExchanges) + 1
                due == /\ n > MaxRecentExchanges
                       /\ before.exchangeCount + 1 - before.lastMergeCount
                             >= MergeFrequency
                older == SubSeq(before.recentExchanges, 1, n - MaxRecentExchanges)
            IN  /\ last'.merged <=> due
                /\ (due /\ ~last'.mergeFailed) =>
                      /\ Len(after.recentExchanges) = MaxRecentExchanges
                      /\ LET pushed == Append(before.recentExchanges,
                                              after.recentExchanges[MaxRecentExchanges])
                         IN  /\ PushedRecent(c, pushed)
                             /\ after.recentExchanges =
                                   SubSeq(pushed, n - MaxRecentExchanges + 1, n)
                      /\ after.historySummary =
                            SummaryResponse(before.historySummary, older)
                      /\ after.lastMergeCount = after.exchangeCount
                /\ ~due =>
                      /\ PushedRecent(c, after.recentExchanges)
                      /\ after.historySummary = before.historySummary
                      /\ after.lastMergeCount = before.lastMergeCount]_vars

C21_Witness ==
    /\ AddExchangeDone
    /\ last.merged
    /\ ~last.mergeFailed
    /\ last.removed # {}
    /\ last.removed \subseteq conversations[last.conversationId].historySummary
    /\ Len(conversations[last.conversationId].recentExchanges) = MaxRecentExchanges
    /\ MergeFrequency > 1

\* the recent list is longer than maxRecentExchanges and no compaction ran
C21_NotDueReached ==
    /\ AddExchangeDone
    /\ ~last.merged
    /\ Len(conversations[last.conversationId].recentExchanges) > MaxRecentExchanges

----------------------------------------------------------------------------
(* Claims about retrieval (SpecRetrieve) *)

KeywordResult == FindRelevantChunksWithKeywords(fr.index, fr.question, cfgMaxChunks)

\* the last collaborator call of the finished findRelevantChunks threw
SelectionThrew ==
    /\ fr.pc = "done"
    /\ fr.responses # <<>>
    /\ fr.responses[Len(fr.responses)].threw

\* C2: when the language-model call raises during the simple or the grouped
\* strategy (in any group), findRelevantChunks does not raise and returns the
\* result of the keyword strategy for the same index and question.
C2_FallbackNeverRaises ==
    SelectionThrew => (~fr.raised /\ fr.result = KeywordResult.chunks)

\* a response without a parseable array of segment IDs
Malformed(tokens) ==
    \/ JsonMatch(tokens) = <<>>
    \/ ~ValidJsonArray(JsonMatch(tokens))

\* findRelevantChunks finished and every collaborator call returned
SelectionReturned ==
    /\ fr.pc = "done"
    /\ fr.responses # <<>>
    /\ \A k \in DOMAIN fr.responses : ~fr.responses[k].threw

SomeMalformed ==
    \E k \in DOMAIN fr.responses :
        ~fr.responses[k].threw /\ Malformed(fr.responses[k].tokens)

ResultIds == [k \in DOMAIN fr.result |-> fr.result[k].id]

\* the listed IDs the index holds, once each, the first maxChunksPerQuery
\* listed IDs only
ListedIds(ids) ==
    LET limited == Slice(ids, 0, OrDefault(cfgMaxChunks, DefaultMaxChunksPerQuery))
    IN  Unique(SelectSeq(limited, LAMBDA id : Includes(fr.index.chunkIds, id)))

C28_NoDuplicates ==
    (fr.pc = "done" /\ ~fr.raised) =>
        /\ \A j, k \in DOMAIN fr.result :
              fr.result[j].id = fr.result[k].id => j = k
        /\ \A k \in DOMAIN fr.result : Includes(fr.index.chunkIds, fr.result[k].id)

\* an ID that is not in the index is left out of the result
C28_UnknownIdDropped ==
    /\ SelectionReturned
    /\ fr.strategy = "simple"
    /\ Includes(Slice(ParseRelevantChunkIds(fr.responses[1].tokens), 0, cfgMaxChunks), "zz")
    /\ Len(fr.result) = 1

\* C17: for every index, question and collaborator behaviour, and whichever
\* strategy produced it (simple, grouped or keyword fallback), the list
\* returned by findRelevantChunks has at most maxChunksPerQuery segments.
C17_AtMostMaxChunks ==
    (fr.pc = "done" /\ ~fr.raised) =>
        Len(fr.result) <= OrDefault(cfgMaxChunks, DefaultMaxChunksPerQuery)

C17_Witness ==
    /\ fr.pc = "done"
    /\ ~fr.raised
    /\ fr.usedKeywords
    /\ fr.strategy = "split"
    /\ Len(fr.result) = cfgMaxChunks
    /\ Len(fr.index.chunkIds) > cfgMaxChunks
    /\ Pricing \in Range(fr.question)

\* the keyword fallback ran and returned
KeywordFallbackReturned == fr.pc = "done" /\ fr.usedKeywords /\ ~fr.raised

QuestionKeywords == ExtractKeywordsFromQuestion(fr.question)

\* the distinct keywords of the question the keyword map associates with id
MatchingWords(id) ==
    {k \in DOMAIN QuestionKeywords :
        /\ QuestionKeywords[k] \in DOMAIN fr.index.keywordsIndex
        /\ Includes(fr.index.keywordsIndex[QuestionKeywords[k]], id)}

\* the question has the one keyword 'pricing', indexed for segment c2 only
PricingForOneSegment ==
    /\ fr.pc = "done"
    /\ fr.usedKeywords
    /\ QuestionKeywords = <<Pricing>>
    /\ Pricing \in DOMAIN fr.index.keywordsIndex
    /\ fr.index.keywordsIndex[Pricing] = <<"c2">>

\* C19: the keyword fallback returns only segments that the index's keyword
\* map associates with at least one keyword of the question, ordered by
\* descending number of distinct matching question words; when the question's
\* keyword 'pricing' is indexed for one segment and for no other, and the
\* primary strategy fails, the result is exactly that segment.
C19_KeywordFallback ==
    /\ KeywordFallbackReturned =>
          /\ \A k \in DOMAIN fr.result :
                /\ MatchingWords(fr.result[k].id) # {}
                /\ fr.result[k].relevanceScore =
                       Cardinality(MatchingWords(fr.result[k].id))
          /\ \A k \in 1..(Len(fr.result) - 1) :
                Cardinality(MatchingWords(fr.result[k].id)) >=
                    Cardinality(MatchingWords(fr.result[k + 1].id))
    /\ PricingForOneSegment => (~fr.raised /\ ResultIds = <<"c2">>)

C19_Witness ==
    /\ PricingForOneSegment
    /\ Len(fr.index.chunkIds) = MaxChunks
    /\ ResultIds = <<"c2">>

\* a later segment matching more question words is returned first
C19_OrderReached ==
    /\ KeywordFallbackReturned
    /\ Len(fr.result) >= 2
    /\ ResultIds[1] # "c1"
    /\ Cardinality(MatchingWords(ResultIds[1])) > Cardinality(MatchingWords(ResultIds[2]))

----------------------------------------------------------------------------
(* Claims about the keyword strategy called on its own (SpecKeywords) *)

AdjacentPunctuation == {"?", ",", "\""}

\* the word without the punctuation written next to it
BareWord(word) == SelectSeq(word, LAMBDA c : c \notin AdjacentPunctuation)

\* the question with every word written without punctuation
BareQuestion(question) == [k \in DOMAIN question |-> BareWord(question[k])]

KeywordSearchDone == fr.pc = "done" /\ fr.strategy = "keywords"

\* C25: the keyword fallback strips punctuation from the question before
\* lookup: a question word written with adjacent punctuation (a trailing
\* question mark, comma or quotation mark) is looked up in the keyword map
\* as the bare lowercase word, so it matches the same segments as the word
\* written without punctuation.
C25_PunctuationStripped ==
    KeywordSearchDone =>
        fr.result =
            FindRelevantChunksWithKeywords(fr.index, BareQuestion(fr.question),
                                           cfgMaxChunks).chunks

\* a word written with a comma matches as the bare word does
C25_CommaReached ==
    /\ KeywordSearchDone
    /\ fr.question = <<Pricing \o <<",">>>>
    /\ fr.result # <<>>

----------------------------------------------------------------------------
(* Claims about the strategies called on their own (SpecStrategy) *)

SingleGroupReturned ==
    /\ fr.pc = "done"
    /\ ~fr.raised
    /\ fr.strategy = "split"
    /\ Len(fr.groups) = 1

\* what the simple strategy returns for the response the single group got
SimpleStrategyIds ==
    AfterStrategyResponse(
        StrategyBegin(fr.index, fr.question, "simple", Len(fr.index.chunkIds)),
        fr.responses[1].tokens).relevantChunkIds

\* the simple strategy returned what the parser made of the response
SimpleReturned ==
    /\ fr.pc = "done"
    /\ ~fr.raised
    /\ fr.strategy = "simple"
    /\ Len(fr.responses) = 1

\* C22: the segment-ID response parser follows an ordered fallback chain and
\* never raises: a bracketed JSON array in the response is parsed; if there
\* is no bracketed text, or the bracketed text is not valid JSON, every
\* quoted substring of the response is returned as a candidate ID; only if
\* that also yields nothing is the empty list returned.
C22_ParserChain ==
    SimpleReturned =>
        LET tokens == fr.responses[1].tokens
        IN  fr.relevantChunkIds =
                IF JsonMatch(tokens) # <<>> /\ ValidJsonArray(JsonMatch(tokens))
                THEN QuotedIds(JsonMatch(tokens))
                ELSE QuotedIds(tokens)

\* the grouped strategy asked every group and returned
GroupedReturned ==
    /\ fr.pc = "done"
    /\ ~fr.raised
    /\ fr.strategy = "split"
    /\ Len(fr.responses) = Len(fr.groups)

\* the IDs the parser made of the response for group g (1-based)
GroupIds(g) == ParseRelevantChunkIds(fr.responses[g].tokens)

\* the IDs of the groups g.., one group after the other
RECURSIVE IdsFromGroup(_)
IdsFromGroup(g) ==
    IF g > Len(fr.responses) THEN <<>> ELSE GroupIds(g) \o IdsFromGroup(g + 1)

\* the number of IDs returned by the groups before group g
RECURSIVE IdsBefore(_)
IdsBefore(g) == IF g = 1 THEN 0 ELSE IdsBefore(g - 1) + Len(GroupIds(g - 1))

\* C23: in the grouped strategy an ID of group g (0-based) at rank r has the
\* score (totalGroups - g) plus a within-group fraction in (0, 1], and the
\* returned list is ordered by descending score: every ID returned by an
\* earlier group precedes every ID returned only by a later group, IDs of
\* one group keep their returned order, and an ID returned more than once
\* appears once, at the position of its highest score. The returned list is
\* the groups' lists one after the other, first occurrences only.
C23_GroupedOrder ==
    GroupedReturned =>
        /\ fr.relevantChunkIds = Unique(IdsFromGroup(1))
        /\ Len(fr.groupResults) = Len(IdsFromGroup(1))
        /\ \A g \in DOMAIN fr.responses :
              \A r \in DOMAIN GroupIds(g) :
                 LET item == fr.groupResults[IdsBefore(g) + r]
                     whole == Len(fr.groups) - (g - 1)
                 IN  /\ item.id = GroupIds(g)[r]
                     /\ item.den * whole < item.num
                     /\ item.num <= item.den * (whole + 1)
                     /\ r > 1 => KeyLess(item, fr.groupResults[IdsBefore(g) + r - 1])

C23_Witness ==
    /\ GroupedReturned
    /\ Len(fr.groups) >= 2
    /\ Len(GroupIds(1)) >= 1
    /\ Len(GroupIds(2)) >= 2
    /\ GroupIds(2)[1] # GroupIds(1)[1]
    /\ Includes(GroupIds(2), GroupIds(1)[1])
    /\ Len(fr.relevantChunkIds) < Len(IdsFromGroup(1))

\* C18: for an index whose segment count is at most the group size (a single
\* group), the grouped strategy and the simple strategy, given the same
\* collaborator response, return segment IDs in the same relative order: the
\* grouped strategy returns the IDs of the simple strategy in their order of
\* first occurrence.
C18_SingleGroupSameOrder ==
    SingleGroupReturned => fr.relevantChunkIds = Unique(SimpleStrategyIds)

C18_Witness ==
    /\ SingleGroupReturned
    /\ Len(fr.index.chunkIds) >= 2
    /\ Len(fr.relevantChunkIds) >= 2
    /\ Len(SimpleStrategyIds) > Len(fr.relevantChunkIds)

----------------------------------------------------------------------------
(* Claims about index building through the orchestrator (SpecBuild) *)

\* createIndex has ended and an enrichment call failed for some segment
EnrichmentFailed ==
    ci.pc = "done" /\ \E k \in DOMAIN ci.failed : ci.failed[k]

\* C20: index creation through the orchestrator's createIndex completes and
\* returns an index ID even when the language-model enrichment call fails
\* for any or all segments; each segment whose enrichment failed is stored
\* with a placeholder summary and an empty keyword list, and the number and
\* order of segments is unchanged.
C20_EnrichmentFailureTolerated ==
    EnrichmentFailed =>
        /\ ~ci.raised
        /\ ci.returned
        /\ ci.indexId \in DOMAIN indexes
        /\ indexes[ci.indexId].chunkCount = Len(ci.chunks)
        /\ [k \in DOMAIN ChunksToIndex(ci) |-> ChunksToIndex(ci)[k].id] =
               [k \in DOMAIN ci.chunks |-> ci.chunks[k].id]
        /\ \A k \in DOMAIN ci.failed :
              ci.failed[k] =>
                  /\ ChunksToIndex(ci)[k].summary = SummaryGenerationFailed
                  /\ ChunksToIndex(ci)[k].keywords = <<>>

\* the enrichment of every segment of a directory failed and the index was
\* stored with the placeholders
C20_AllFailedStored ==
    /\ EnrichmentFailed
    /\ ci.returned
    /\ Len(ci.chunks) >= 2
    /\ \A k \in DOMAIN ci.chunks : ci.failed[k]

\* C30: within one createIndex call, every segment handed to the index
\* store has a distinct ID, so the persisted segment map has exactly
\* chunkCount entries and no segment replaces another; this holds for a
\* single file and for a directory tree, including trees where files in
\* different sub-directories share a base name.
C30_DistinctSegmentIds ==
    (ci.pc = "done" /\ ci.returned) =>
        /\ \A j, k \in DOMAIN ChunksToIndex(ci) :
              ChunksToIndex(ci)[j].id = ChunksToIndex(ci)[k].id => j = k
        /\ ci.indexId \in DOMAIN indexes
        /\ Cardinality(DOMAIN indexes[ci.indexId].chunks)
              = indexes[ci.indexId].chunkCount

\* a directory whose files have different base names is stored whole
C30_DistinctNamesStored ==
    /\ ci.pc = "done"
    /\ ci.returned
    /\ ci.isDirectory
    /\ Len(ci.chunks) = 4
    /\ Cardinality(DOMAIN indexes[ci.indexId].chunks) = 4

----------------------------------------------------------------------------
(* Claims about answer synthesis (SpecAnswer) *)

\* the number of list positions holding segment id
Occurrences(list, id) == Cardinality({k \in DOMAIN list : list[k] = id})

\* C4: generateAnswer over n segments issues exactly n per-segment calls, one
\* per segment, each replacing the running answer with the response verbatim,
\* and then exactly one final-polish call if and only if n > 1; it returns
\* the polish response when n > 1, the single segment response when n = 1 and
\* the empty string, with no call, when n = 0.
C4_CallsAndAnswer ==
    (ga.pc = "done" /\ ~ga.raised) =>
        LET n == Len(ga.relevantChunks)
            total == Len(ga.calls)
            segmentCalls == [k \in 1..Min(n, total) |-> ga.calls[k].chunk]
            segments == [k \in 1..n |-> ga.relevantChunks[k].id]
        IN  /\ total = IF n > 1 THEN n + 1 ELSE n
            /\ \A k \in 1..Min(n, total) : ga.calls[k].kind = "chunk"
            /\ \A id \in Range(segments) \cup Range(segmentCalls) :
                  Occurrences(segmentCalls, id) = Occurrences(segments, id)
            /\ \A k \in 1..total :
                  ga.calls[k].prior = IF k = 1 THEN NoAnswer ELSE ga.calls[k - 1].response
            /\ n > 1 => (total = n + 1 /\ ga.calls[total].kind = "final")
            /\ ga.result = IF n = 0 THEN NoAnswer ELSE ga.calls[total].response

C4_Witness ==
    /\ ga.pc = "done"
    /\ ~ga.raised
    /\ Len(ga.relevantChunks) = MaxChunks
    /\ ga.calls[Len(ga.calls)].kind = "final"
    /\ ga.calls[Len(ga.calls)].response # ga.calls[Len(ga.calls)].prior

\* the length of the content the pacing sleep before call k is computed
\* from: the segment's content, or the answer so far before the final polish
PacedLength(k) ==
    IF ga.calls[k].kind = "chunk" THEN ChunkContentLengths[ga.calls[k].chunk]
    ELSE AnswerLengths[ga.calls[k].prior]

TokensPerMinute == OrDefault(cfgTokenRate, DefaultTokenRatePerMinute)

\* C24: in generateAnswer every collaborator call (each segment step and the
\* final polish) is issued only after a pacing sleep of at least 500 ms,
\* computed as max(500, ceil(contentLength / 4 / tokensPerMinute * 60000)),
\* has completed since the previous call returned, and at no time is more
\* than one collaborator call outstanding.
C24_PacedCalls ==
    /\ [](/\ ga.outstanding <= 1
          /\ \A k \in DOMAIN ga.calls :
                /\ ga.calls[k].waited >= 500
                /\ ga.calls[k].waited * TokensPerMinute >= PacedLength(k) * 15000
                /\ \/ ga.calls[k].waited = 500
                   \/ (ga.calls[k].waited - 1) * TokensPerMinute
                         < PacedLength(k) * 15000)
    /\ [][Len(ga'.calls) # Len(ga.calls) =>
            /\ Len(ga'.calls) = Len(ga.calls) + 1
            /\ ga.pc = "sleep"
            /\ ga.outstanding = 0
            /\ ga'.outstanding = 1
            /\ ga'.calls[Len(ga'.calls)].waited = ga.waitTime
            /\ \A k \in DOMAIN ga.calls :
                  ga.calls[k].threw \/ ga.calls[k].response # NoAnswer]_vars

C24_Witness ==
    /\ ga.pc = "call"
    /\ Len(ga.calls) >= 3
    /\ ga.calls[Len(ga.calls)].kind = "final"
    /\ ga.calls[Len(ga.calls)].waited > 500
    /\ \E k \in DOMAIN ga.calls : ga.calls[k].waited = 500
    /\ \E k \in DOMAIN ga.calls :
          /\ ga.calls[k].kind = "chunk"
          /\ ga.calls[k].waited * TokensPerMinute > PacedLength(k) * 15000
          /\ ga.calls[k].waited > 500

\* C6: if any collaborator call made by generateAnswer fails, at a segment
\* step or at the final polish, generateAnswer raises, returns no partial
\* answer and issues no call after the failing one.
C6_FailureAborts ==
    \A k \in DOMAIN ga.calls :
        ga.calls[k].threw =>
            /\ k = Len(ga.calls)
            /\ ga.pc = "done"
            /\ ga.raised
            /\ ga.result = NoAnswer

C6_Witness ==
    /\ ga.pc = "done"
    /\ ga.raised
    /\ Len(ga.calls) > 1
    /\ ga.calls[Len(ga.calls)].threw
    /\ ga.calls[Len(ga.calls)].prior # NoAnswer

----------------------------------------------------------------------------
(* Claims about answerQuestion (Spec) *)

\* C5: generateAnswer folds the segments in the order in which the retriever
\* returned them: for every list produced by findRelevantChunks, ranked by
\* the language model or by the keyword fallback, the i-th collaborator call
\* is made for the i-th segment of that list.
C5_RetrieverOrder ==
    aq.pc = "answering" =>
        \A k \in DOMAIN ga.calls :
            ga.calls[k].kind = "chunk" => ga.calls[k].chunk = ga.relevantChunks[k].id

\* C7: a successful answerQuestion leaves exactly one conversation changed:
\* a new one bound to indexId when no conversationId is supplied, otherwise
\* the supplied one; its exchangeCount grows by exactly one, its newest
\* recent exchange holds the question and the returned answer, and the
\* returned conversationId identifies it.
C7_OneConversationChanged ==
    (aq.pc = "done" /\ ~aq.raised) =>
        LET c == aq.conversation
            created == aq.conversationId = ""
        IN  /\ c \in DOMAIN conversations
            /\ IF created
               THEN c \notin DOMAIN aq.before /\ conversations[c].indexId = aq.indexId
               ELSE c = aq.conversationId /\ c \in DOMAIN aq.before
            /\ DOMAIN conversations = DOMAIN aq.before \cup {c}
            /\ \A other \in DOMAIN aq.before \ {c} :
                  conversations[other] = aq.before[other]
            /\ conversations[c].exchangeCount =
                  (IF created THEN 0 ELSE aq.before[c].exchangeCount) + 1
            /\ conversations[c].recentExchanges # <<>>
            /\ LET newest == conversations[c].recentExchanges[
                                 Len(conversations[c].recentExchanges)]
               IN  newest.question = aq.question /\ newest.answer = aq.answer

C7_Witness ==
    /\ aq.pc = "done"
    /\ ~aq.raised
    /\ aq.conversationId # ""
    /\ DOMAIN aq.before \ {aq.conversationId} # {}
    /\ aq.answer # NoAnswer
    /\ conversations[aq.conversation].exchangeCount > 1

\* C29: if answerQuestion fails (index not found, conversation not found,
\* or answer synthesis fails), the conversation store is left exactly as it
\* was before the call: no conversation is created and no exchange is
\* appended.
C29_FailureLeavesStore ==
    [][(aq' # aq /\ aq'.pc = "done" /\ aq'.raised) =>
            conversations' = aq'.before]_vars

\* a failure for a conversation that is not found leaves the store as it was
C29_NotFoundReached ==
    /\ aq.pc = "done"
    /\ aq.raised
    /\ aq.conversationId # ""
    /\ aq.indexId \in DOMAIN indexes
    /\ conversations = aq.before
    /\ conversations # <<>>

----------------------------------------------------------------------------
(* Claims about splitIntoChunks (SpecSplit) *)

\* C10: for every text T with len(T) <= maxSegmentChars, the empty text and
\* a text of exactly maxSegmentChars characters included, splitIntoChunks
\* returns exactly one segment, with ID <baseName>_chunk_1, whose content
\* equals T.
C10_ShortTextOneSegment ==
    (sp.pc = "done" /\ Len(sp.content) <= MaxChunkSize) =>
        /\ Len(sp.chunks) = 1
        /\ sp.chunks[1].id = <<sp.filePath[Len(sp.filePath)], "_chunk_", 1>>
        /\ sp.chunks[1].content = sp.content

C10_Witness ==
    /\ sp.pc = "done"
    /\ Len(sp.content) = MaxChunkSize
    /\ Len(sp.filePath) > 1
    /\ Len(sp.chunks) = 1

\* splitIntoChunks returned for a text longer than maxChunkSize
LongTextSplit == sp.pc = "done" /\ Len(sp.content) > MaxChunkSize

\* C11: for every text longer than maxSegmentChars and every overlap
\* percentage in 0..100, every segment emitted by splitIntoChunks has length
\* <= maxSegmentChars * (1 + overlapPercentage / 100).
C11_SegmentLength ==
    LongTextSplit =>
        \A k \in DOMAIN sp.chunks :
            Len(sp.chunks[k].content) * 100 <= MaxChunkSize * (100 + cfgOverlapPercentage)

C11_Witness ==
    /\ LongTextSplit
    /\ cfgOverlapPercentage > 0
    /\ \E k \in DOMAIN sp.chunks :
          Len(sp.chunks[k].content) * 100 = MaxChunkSize * (100 + cfgOverlapPercentage)

\* ceil(a / b)
CeilDiv(a, b) == (a + b - 1) \div b

\* the segments are ceil(len / maxSegmentChars) non-empty ranges of the text,
\* in order, from offset 0 to the end of the text, leaving no gap
CoveringSegments ==
    /\ Len(sp.chunks) = CeilDiv(Len(sp.content), MaxChunkSize)
    /\ \A k \in DOMAIN sp.chunks :
          /\ sp.chunks[k].content # <<>>
          /\ sp.chunks[k].content =
                SubSeq(sp.content, sp.chunks[k].startPosition + 1,
                       sp.chunks[k].endPosition + 1)
    /\ sp.chunks[1].startPosition = 0
    /\ sp.chunks[Len(sp.chunks)].endPosition = Len(sp.content) - 1
    /\ \A k \in 1..(Len(sp.chunks) - 1) :
          /\ sp.chunks[k + 1].startPosition <= sp.chunks[k].endPosition + 1
          /\ sp.chunks[k + 1].startPosition >= sp.chunks[k].startPosition
          /\ sp.chunks[k + 1].endPosition >= sp.chunks[k].endPosition

\* every two consecutive segments share at least one character
ConsecutiveShare ==
    \A k \in 1..(Len(sp.chunks) - 1) :
        sp.chunks[k + 1].startPosition <= sp.chunks[k].endPosition

\* C12 as stated: for every text longer than maxSegmentChars, with overlap
\* > 0, splitIntoChunks emits exactly ceil(len / maxSegmentChars) segments,
\* none empty, whose ranges start at 0 and end at len with each consecutive
\* pair sharing at least one character.
C12_OverlapShares ==
    (LongTextSplit /\ cfgOverlapPercentage > 0) =>
        (CoveringSegments /\ ConsecutiveShare)

\* C12 amended: for every text longer than maxSegmentChars the segments are
\* ceil(len / maxSegmentChars) non-empty ranges covering the text from 0 to
\* len without a gap; consecutive segments share at least one character
\* exactly when the padding floor(maxSegmentChars * overlapPercentage / 200)
\* is at least 1, and otherwise are adjacent with no shared character.
C12_CoverAndShare ==
    LongTextSplit =>
        /\ CoveringSegments
        /\ ChunkPadding >= 1 => ConsecutiveShare
        /\ ChunkPadding = 0 =>
              \A k \in 1..(Len(sp.chunks) - 1) :
                  sp.chunks[k + 1].startPosition = sp.chunks[k].endPosition + 1

C12_Witness ==
    /\ LongTextSplit
    /\ ChunkPadding >= 1
    /\ Len(sp.chunks) >= 3
    /\ Len(sp.content) % MaxChunkSize # 0

\* C13 as stated: every segment emitted by splitIntoChunks, for every input
\* text including the empty text, satisfies endPosition >= startPosition.
C13_EndNotBeforeStart ==
    sp.pc = "done" =>
        \A k \in DOMAIN sp.chunks :
            sp.chunks[k].endPosition >= sp.chunks[k].startPosition

\* C13 amended: endPosition is the offset of the segment's last character,
\* endPosition = startPosition + length - 1; it is >= startPosition for every
\* segment of a non-empty text, and the single segment of the empty text has
\* startPosition 0 and endPosition -1.
C13_InclusiveEnd ==
    sp.pc = "done" =>
        /\ \A k \in DOMAIN sp.chunks :
              /\ sp.chunks[k].endPosition =
                    sp.chunks[k].startPosition + Len(sp.chunks[k].content) - 1
              /\ sp.content # <<>> =>
                    sp.chunks[k].endPosition >= sp.chunks[k].startPosition
        /\ sp.content = <<>> =>
              /\ Len(sp.chunks) = 1
              /\ sp.chunks[1].startPosition = 0
              /\ sp.chunks[1].endPosition = -1

C13_Witness ==
    /\ sp.pc = "done"
    /\ sp.content = <<>>
    /\ Len(sp.chunks) = 1
    /\ sp.chunks[1].endPosition < sp.chunks[1].startPosition

----------------------------------------------------------------------------
(* Claims about the index store (SpecIndex) *)

\* the k-th IndexManager call created the index and the next one loaded it
CreatedThenLoaded(k) ==
    /\ k < Len(ix.calls)
    /\ ix.calls[k].op = "createIndex"
    /\ ix.calls[k + 1].op = "loadIndex"
    /\ ix.calls[k + 1].indexId = ix.calls[k].indexId

\* C14: for every list of enriched segments and options,
\* loadIndex(createIndex(segments, options)) returns an index whose segment
\* count equals len(segments) and whose keyword map maps every keyword
\* attached to any segment to a collection containing that segment's ID.
C14_RoundTrip ==
    \A k \in DOMAIN ix.calls :
        /\ ix.calls[k].op = "createIndex" => ~ix.calls[k].raised
        /\ CreatedThenLoaded(k) =>
              LET index == ix.calls[k + 1].index
              IN  /\ ix.calls[k + 1].returned
                  /\ index.chunkCount = Len(ix.enrichedChunks)
                  /\ \A c \in DOMAIN ix.enrichedChunks :
                        \A w \in DOMAIN ix.enrichedChunks[c].keywords :
                            LET keyword == ix.enrichedChunks[c].keywords[w]
                            IN  /\ keyword \in DOMAIN index.keywordsIndex
                                /\ Includes(index.keywordsIndex[keyword],
                                            ix.enrichedChunks[c].id)

\* C15: for every index produced by createIndex, the length of the stored
\* whole-document summary does not exceed indexing.maxOverallSummaryLength,
\* including when the concatenated summaries are longer than the cap and the
\* summary is truncated with an ellipsis marker.
C15_SummaryWithinCap ==
    \A i \in DOMAIN indexes :
        Len(indexes[i].overallSummary)
            <= OrDefault(cfgMaxOverallSummaryLength, DefaultMaxOverallSummaryLength)

\* the index file indexId exists before the k-th call: a createIndex call
\* wrote it and no deleteIndex call removed it since
ExistsBefore(k, indexId) ==
    \E j \in 1..(k - 1) :
        /\ ix.calls[j].op = "createIndex"
        /\ ~ix.calls[j].raised
        /\ ix.calls[j].indexId = indexId
        /\ \A m \in (j + 1)..(k - 1) :
              ~(ix.calls[m].op = "deleteIndex" /\ ix.calls[m].indexId = indexId)

\* word.toLowerCase()
LowerWord(word) == [k \in DOMAIN word |-> ToLowerChar(word[k])]

\* C26: at index-build time each segment's keywords are normalized to
\* lowercase and deduplicated before they are entered in the keyword map, so
\* every key of the keyword map is lowercase and a lowercased question word
\* matches a segment keyword regardless of the letter case in which
\* enrichment produced it.
C26_KeywordsLowercased ==
    \A i \in DOMAIN indexes :
        /\ \A keyword \in DOMAIN indexes[i].keywordsIndex :
              keyword = LowerWord(keyword)
        /\ \A c \in DOMAIN indexes[i].chunks :
              \A k \in DOMAIN indexes[i].chunks[c].keywords :
                 LET keyword == LowerWord(indexes[i].chunks[c].keywords[k])
                 IN  /\ keyword \in DOMAIN indexes[i].keywordsIndex
                     /\ Includes(indexes[i].keywordsIndex[keyword], c)

\* a keyword listed twice for a segment is entered once
C26_DedupReached ==
    \E i \in DOMAIN indexes :
        /\ Refund \in DOMAIN indexes[i].keywordsIndex
        /\ indexes[i].keywordsIndex[Refund] = <<"c1">>
        /\ indexes[i].chunks["c1"].keywords # Unique(indexes[i].chunks["c1"].keywords)

\* C16: for an existing index ID, calling deleteIndex twice in a row returns
\* true and then false, the second call does not raise, and deleteIndex on
\* an ID that was never created returns false without raising.
C16_DeleteTwice ==
    \A k \in DOMAIN ix.calls :
        ix.calls[k].op = "deleteIndex" =>
            /\ ~ix.calls[k].raised
            /\ ix.calls[k].returned = ExistsBefore(k, ix.calls[k].indexId)
            /\ (k > 1 /\ ix.calls[k - 1].op = "deleteIndex"
                      /\ ix.calls[k - 1].indexId = ix.calls[k].indexId)
                  => ~ix.calls[k].returned
            /\ k = Len(ix.calls) => ix.calls[k].indexId \notin DOMAIN indexes

C16_Witness ==
    /\ Len(ix.calls) = 3
    /\ ix.calls[1].op = "createIndex"
    /\ ~ix.calls[1].raised
    /\ ix.calls[2].op = "deleteIndex"
    /\ ix.calls[3].op = "deleteIndex"
    /\ ix.calls[2].indexId = ix.calls[1].indexId
    /\ ix.calls[3].indexId = ix.calls[1].indexId
    /\ ix.calls[2].returned
    /\ ~ix.calls[3].returned

====
